---- MODULE Spec2Model ----
(***************************************************************************)
(* State-machine model of testing/sgh_dd.cpp (sg3_utils): the multi-       *)
(* threaded segment copy engine.  One main thread, NumThreads worker       *)
(* threads running read_write_thread(), the shared scheduler state of      *)
(* struct global_collection and the file-scope atomics.                    *)
(***************************************************************************)
EXTENDS Integers, Sequences, FiniteSets, TLC

(* ------------------------------------------------------------------ *)
(* Bounds of the model                                                 *)
(* ------------------------------------------------------------------ *)
NumThreads == 2
MaxCount == 5
MaxFaults == 1
(* attempts after which sg_wr_swap_share gives up on EBUSY (10000 in   *)
(* the program: 'if (k > 10000) break')                                *)
SwapRetries == 1

(* ------------------------------------------------------------------ *)
(* Program constants                                                   *)
(* ------------------------------------------------------------------ *)
FT_OTHER == 1
FT_SG == 2
FT_DEV_NULL == 4
FT_RANDOM_0_FF == 128

(* defaults of the command line *)
DEF_BLOCKS_PER_TRANSFER == 128
DEF_SCSI_CDBSZ == 10
DEF_SDT_ICT_MS == 300
DEF_SDT_CRT_SEC == 3

SG_LIB_CAT_NOT_READY == 2
SG_LIB_CAT_MEDIUM_HARD == 3
SG_LIB_CAT_ABORTED_COMMAND == 11
SG_LIB_CAT_MISCOMPARE == 14
SG_LIB_CAT_OTHER == 99

(* errno values *)
ENOMEM == 12
EBUSY == 16

(* A failed submission or receive: sg_start_io / sg_finish_io return -1 *)
RES_FAIL == 0 - 1

(* Data tags.  A block of the source that holds the big-endian address a  *)
(* in each 32-bit word has tag a (so an all-zero block has tag 0).        *)
GARBAGE == 0 - 1
UNTOUCHED == 0 - 2
FF_FILL == 0 - 3

Workers == 0 .. (NumThreads - 1)
MainTid == NumThreads
NoOwner == 0 - 1

Min(a, b) == IF a < b THEN a ELSE b
Max(a, b) == IF a > b THEN a ELSE b

VARIABLES
    cfg,            \* immutable configuration (global_collection, options)
    pos_index,      \* atomic<long> pos_index
    in_rem_count, out_rem_count, out_count, out_blk,
    in_stop, out_stop, in_partial, out_partial,
    exit_status,    \* static int exit_status
    mono_pack_id,   \* atomic<int> mono_pack_id
    in_mutex, out_mutex, out2_mutex,    \* owner of each mutex, or NoOwner
    pc,             \* position of each worker in read_write_thread
    rep,            \* Rq_elem and locals of each worker
    mpc,            \* position of the main thread
    spc,            \* position of the signal-listening thread: "ended"
                    \* after its break on SIGINT, "returned" after its
                    \* break on shutting_down
    exit_code,      \* value returned by main(), NoOwner until it returns
    i_off,          \* byte offset of the shared regular input fd
    o_off,          \* block offset of the shared regular output fd
    ofile,          \* contents of a regular output file, by block
    cmds,           \* log of submitted SCSI commands, in submission order
    owr,            \* log of primary-output writes begun, in order
    wr_done,        \* output LBAs of primary writes completed successfully
    wr_bad,         \* pairs <<L1, L2>>, L1 < L2: L2 begun before L1 was done
    taken,          \* log of the values obtained from pos_index, in order
    es_log,         \* log of the values stored to exit_status, in order
    faults,         \* number of injected I/O faults so far
    num_miscompare, \* atomic<int> num_miscompare
    oreg,           \* log of the writes to the OFREG fd, in order
    shutting_down,  \* atomic<bool> shutting_down
    sl              \* locals of sig_listen_thread

vars == <<cfg, spc, pos_index, in_rem_count, out_rem_count, out_count, out_blk,
          in_stop, out_stop, in_partial, out_partial, exit_status,
          mono_pack_id, in_mutex, out_mutex, out2_mutex, pc, rep, mpc,
          exit_code, i_off, o_off, ofile, cmds, owr, wr_done, wr_bad,
          taken, es_log, faults, num_miscompare, oreg, shutting_down, sl>>

counters == <<in_rem_count, out_rem_count, out_count, out_blk, in_partial,
              out_partial>>
stops == <<in_stop, out_stop>>
mutexes == <<in_mutex, out_mutex, out2_mutex>>
files == <<i_off, o_off, ofile>>
wlog == <<owr, wr_done, wr_bad, taken, es_log>>

(* ------------------------------------------------------------------ *)
(* Configurations                                                      *)
(* ------------------------------------------------------------------ *)
(* Regular file to regular file, every worker shares the two fds.      *)
CfgFile ==
    [in_type |-> FT_OTHER, out_type |-> FT_OTHER,
     in_zero |-> FALSE, in_ff |-> FALSE, in_random |-> FALSE,
     same_fds |-> FALSE, out2_sg |-> FALSE, outreg |-> FALSE,
     has_share |-> FALSE, ofsplit |-> 0, prefetch |-> FALSE,
     verify |-> FALSE, chkaddr |-> FALSE, in_coe |-> FALSE,
     out_coe |-> FALSE, in_v4 |-> FALSE, out_v4 |-> FALSE, bs |-> 4, bpt |-> 2, count |-> MaxCount,
     skip |-> 1, seek |-> 2, in_bytes |-> 4 * (1 + MaxCount),
     nmrqs |-> 0, mrq_async |-> FALSE,
     in_fua |-> FALSE, out_fua |-> FALSE, cdbsz |-> DEF_SCSI_CDBSZ,
     sdt_ict |-> DEF_SDT_ICT_MS, sdt_crt |-> DEF_SDT_CRT_SEC,
     maxfaults |-> 0]

both_sg(c) == c.in_type = FT_SG /\ c.out_type = FT_SG
only_in_sg(c) == c.in_type = FT_SG /\ c.out_type # FT_SG
only_out_sg(c) == c.in_type # FT_SG /\ c.out_type = FT_SG

share_and_ofreg(c) == c.has_share /\ c.outreg

LBAs == 0 .. (CfgFile.seek + MaxCount + 1)

InitRep(c) ==
    [my_index |-> 0, blocks |-> 0, num_blks |-> 0, iblk |-> 0, oblk |-> 0,
     stop_after_write |-> FALSE, rd_p_id |-> 0, pack_id |-> 0,
     buf |-> [k \in 0 .. (c.bpt - 1) |-> GARBAGE],
     is_wr2 |-> FALSE, prefetch |-> FALSE, dout_is_split |-> FALSE,
     hpv4_ind |-> 0, blk_offset |-> 0, blks |-> 0, nblks |-> 0,
     res |-> 0, saw |-> FALSE, ret |-> "none",
     def_arr |-> <<>>, in_mrq_q_blks |-> 0, out_mrq_q_blks |-> 0,
     fl |-> [n |-> 0, sub |-> 0, good |-> 0, in_back |-> 0, out_back |-> 0,
             ioctls |-> <<>>],
     rd_ok |-> 0,
     share |-> IF c.has_share THEN "out" ELSE "none",
     swap_k |-> 0, swap_ret |-> TRUE, swap_ok |-> TRUE]

(* sig_listen_thread: the timeout of its first waits, in milliseconds *)
IctMs(c) == IF c.sdt_ict # 0 THEN c.sdt_ict ELSE DEF_SDT_ICT_MS

(* the locals of sig_listen_thread when it starts; ticks, last_id and  *)
(* stall_now record its timeouts: whether their number is odd, the     *)
(* pack id read at the latest one (NoOwner before the first), whether  *)
(* the latest one announced a stall                                    *)
InitSl(c) ==
    [stall_reported |-> FALSE, prev_pack_id |-> 0, tsp_ms |-> IctMs(c),
     tick |-> FALSE, last_id |-> NoOwner, stall_now |-> FALSE]

InitWith(c) ==
    /\ cfg = c
    /\ shutting_down = FALSE
    /\ sl = InitSl(c)
    /\ pos_index = 0
    /\ in_rem_count = c.count
    /\ out_count = c.count
    /\ out_rem_count = c.count
    /\ out_blk = c.seek
    /\ in_stop = FALSE
    /\ out_stop = FALSE
    /\ in_partial = 0
    /\ out_partial = 0
    /\ exit_status = 0
    /\ mono_pack_id = 1
    /\ in_mutex = NoOwner
    /\ out_mutex = NoOwner
    /\ out2_mutex = NoOwner
    /\ pc = [w \in Workers |-> "idle"]
    /\ rep = [w \in Workers |-> InitRep(c)]
    /\ mpc = "start"
    /\ spc = "listen"
    /\ exit_code = NoOwner
    /\ i_off = c.skip * c.bs
    /\ o_off = c.seek
    /\ ofile = [a \in LBAs |-> UNTOUCHED]
    /\ cmds = <<>>
    /\ owr = <<>>
    /\ wr_done = {}
    /\ wr_bad = {}
    /\ taken = <<>>
    /\ es_log = <<>>
    /\ faults = 0
    /\ num_miscompare = 0
    /\ oreg = <<>>

(* ------------------------------------------------------------------ *)
(* Decisions taken by the code, as operators                           *)
(* ------------------------------------------------------------------ *)
(* read_write_thread: number of blocks of the segment at my_index *)
SegBlocks(c, idx) ==
    IF idx + c.bpt > c.count THEN c.count - idx ELSE c.bpt

(* Variant: the wait for the worker's turn is never made *)
GateApplies_never(c) == FALSE

(* read_write_thread: does the worker wait on out_sync_cv for its turn? *)
GateApplies(c) ==
    /\ ~ c.in_random
    /\ ~ (~ c.outreg /\ c.in_type = FT_SG /\ c.out_type = FT_SG)
    /\ (share_and_ofreg(c) \/ c.out_type # FT_DEV_NULL)

(* Variant: the worker never waits for its turn *)
MustWait_off(c, stop, oblk, oblkNext) == FALSE

(* read_write_thread: the while condition of the out_sync_cv wait *)
MustWait(c, stop, oblk, oblkNext) ==
    GateApplies(c) /\ ~ stop /\ oblk # oblkNext

(* Variant: the stop test is never made *)
MustLeave_never(stop, ocount) == FALSE

(* read_write_thread: the stop test made before every write half *)
MustLeave(stop, ocount) == stop \/ ocount <= 0

(* print_stats: full and partial records in, and records out *)
PrintStatsIn(c, in_rem, in_part) == <<c.count - in_rem - in_part, in_part>>
PrintStatsOut(c, out_rem, out_part) ==
    IF c.out_type = FT_DEV_NULL THEN <<0, 0>>
    ELSE <<c.count - out_rem - out_part, out_part>>

(* main: clp->nmrqs, the NRQS given in mrq= made even when IFILE and    *)
(* OFILE are both sg devices, or a multiple of 3 when also OSP > 0      *)
Nmrqs(c) ==
    IF c.nmrqs > 0 /\ c.in_type = FT_SG /\ c.out_type = FT_SG
    THEN IF c.ofsplit > 0
         THEN IF c.nmrqs % 3 # 0 THEN c.nmrqs * 3 ELSE c.nmrqs
         ELSE IF c.nmrqs % 2 # 0 THEN c.nmrqs * 2 ELSE c.nmrqs
    ELSE c.nmrqs

(* main: the value returned to the caller *)
ExitCode(status, ocount) ==
    LET res == IF ocount # 0 /\ status = 0 THEN SG_LIB_CAT_OTHER ELSE status
    IN  IF res >= 0 THEN res ELSE SG_LIB_CAT_OTHER

(* Variant: the broadcast wakes no worker *)
Woken_none(p) == p

(* pthread_cond_broadcast(&clp->out_sync_cv): every worker waiting on the *)
(* condition variable becomes runnable and has to re-acquire out_mutex.   *)
Woken(p) == [w \in Workers |-> IF p[w] = "cv_wait" THEN "lock_out" ELSE p[w]]

(* the broadcast also ends the one wait of the main thread *)
MainWoken(m) == IF m = "waiting" THEN "woken" ELSE m

(* Variant: only the input side is told to stop *)
StopBoth_in == in_stop' = TRUE /\ UNCHANGED out_stop

(* stop_both *)
StopBoth == in_stop' = TRUE /\ out_stop' = TRUE

(* label that follows the read half: the optional address check *)
AfterRead(c) == IF c.chkaddr /\ c.bs > 3 THEN "chkaddr" ELSE "lock_out"

(* Ghost bookkeeping when a primary write at output LBA lba is begun *)
BadPairs(lba) ==
    {<<l1, lba>> : l1 \in {x \in LBAs : x >= cfg.seek /\ x < lba /\ x \notin wr_done}}

FaultOK == faults < cfg.maxfaults

(* ------------------------------------------------------------------ *)
(* Main thread                                                         *)
(* ------------------------------------------------------------------ *)
(* Variant: the first worker is started whatever the count is *)
MainCreate_always ==
    /\ mpc = "start"
    /\ out_mutex = NoOwner
    /\ out_mutex' = MainTid
    /\ pc' = [pc EXCEPT ![0] = "open"]
    /\ mpc' = "created"
    /\ UNCHANGED <<cfg, shutting_down, sl, oreg, num_miscompare, spc, pos_index, in_rem_count, out_rem_count, out_count,
                   out_blk, in_stop, out_stop, in_partial, out_partial,
                   exit_status, mono_pack_id, in_mutex, out2_mutex, rep,
                   exit_code, i_off, o_off, ofile, cmds, wlog, faults>>

(* main: start worker 0 holding out_mutex, or nothing if no block is due *)
MainCreate ==
    /\ mpc = "start"
    /\ IF out_rem_count > 0 /\ NumThreads > 0
       THEN /\ out_mutex = NoOwner
            /\ out_mutex' = MainTid
            /\ pc' = [pc EXCEPT ![0] = "open"]
            /\ mpc' = "created"
       ELSE /\ mpc' = "joined"
            /\ UNCHANGED <<out_mutex, pc>>
    /\ UNCHANGED <<cfg, shutting_down, sl, oreg, num_miscompare, spc, pos_index, in_rem_count, out_rem_count, out_count,
                   out_blk, in_stop, out_stop, in_partial, out_partial,
                   exit_status, mono_pack_id, in_mutex, out2_mutex, rep,
                   exit_code, i_off, o_off, ofile, cmds, wlog, faults>>

MainWait ==
    /\ mpc = "created"
    /\ out_mutex' = NoOwner
    /\ mpc' = "waiting"
    /\ UNCHANGED <<cfg, shutting_down, sl, oreg, num_miscompare, spc, pos_index, in_rem_count, out_rem_count, out_count,
                   out_blk, in_stop, out_stop, in_partial, out_partial,
                   exit_status, mono_pack_id, in_mutex, out2_mutex, pc, rep,
                   exit_code, i_off, o_off, ofile, cmds, wlog, faults>>

MainStartRest ==
    /\ mpc = "woken"
    /\ out_mutex = NoOwner
    /\ pc' = [w \in Workers |-> IF w >= 1 THEN "open" ELSE pc[w]]
    /\ mpc' = "join"
    /\ UNCHANGED <<cfg, shutting_down, sl, oreg, num_miscompare, spc, pos_index, in_rem_count, out_rem_count, out_count,
                   out_blk, in_stop, out_stop, in_partial, out_partial,
                   exit_status, mono_pack_id, in_mutex, out_mutex,
                   out2_mutex, rep, exit_code, i_off, o_off, ofile, cmds, wlog, faults>>

MainJoin ==
    /\ mpc = "join"
    /\ \A w \in Workers : pc[w] = "done"
    /\ mpc' = "joined"
    /\ UNCHANGED <<cfg, shutting_down, sl, oreg, num_miscompare, spc, pos_index, in_rem_count, out_rem_count, out_count,
                   out_blk, in_stop, out_stop, in_partial, out_partial,
                   exit_status, mono_pack_id, in_mutex, out_mutex,
                   out2_mutex, pc, rep, exit_code, i_off, o_off, ofile, cmds, wlog, faults>>

(* Variant: shutting_down is set before the workers are joined *)
MainShutdown_early ==
    /\ mpc \in {"join", "joined"}
    /\ ~shutting_down
    /\ shutting_down' = TRUE
    /\ UNCHANGED <<cfg, sl, oreg, num_miscompare, spc, pos_index, counters, stops,
                   exit_status, mono_pack_id, mutexes, pc, rep, mpc,
                   exit_code, files, cmds, wlog, faults>>

(* main, after the joins of the workers: shutting_down = true *)
MainShutdown ==
    /\ mpc = "joined"
    /\ ~shutting_down
    /\ shutting_down' = TRUE
    /\ UNCHANGED <<cfg, sl, oreg, num_miscompare, spc, pos_index, counters, stops,
                   exit_status, mono_pack_id, mutexes, pc, rep, mpc,
                   exit_code, files, cmds, wlog, faults>>

(* pthread_join of the signal-listening thread returns, then fini:     *)
(* return the exit code                                                *)
MainExit ==
    /\ mpc = "joined"
    /\ shutting_down
    /\ spc \in {"ended", "returned"}
    /\ exit_code' = ExitCode(exit_status, out_count)
    /\ mpc' = "exit"
    /\ UNCHANGED <<cfg, shutting_down, sl, oreg, num_miscompare, spc, pos_index, in_rem_count, out_rem_count, out_count,
                   out_blk, in_stop, out_stop, in_partial, out_partial,
                   exit_status, mono_pack_id, in_mutex, out_mutex,
                   out2_mutex, pc, rep, i_off, o_off, ofile, cmds, wlog, faults>>

(* ------------------------------------------------------------------ *)
(* The signal-listening thread: its timed wait (sig_listen_thread)     *)
(* ------------------------------------------------------------------ *)
(* Variant: a stall is announced whenever the pack id is positive *)
StallSeen_any(c, pack_id, prev) == c.sdt_crt > 0 /\ pack_id > 0

(* sig_listen_thread after a timeout: the pack id has not moved *)
StallSeen(c, pack_id, prev) ==
    c.sdt_crt > 0 /\ pack_id > 0 /\ pack_id = prev

(* sigtimedwait times out (EAGAIN): the stall check, then the test of  *)
(* shutting_down at the foot of the loop                               *)
SigTimeout ==
    /\ spc = "listen"
    /\ mpc \notin {"exit", "aborted", "signalled"}
    /\ LET pack_id == mono_pack_id
           stall == StallSeen(cfg, pack_id, sl.prev_pack_id)
       IN  sl' = [sl EXCEPT
                    !.stall_reported = @ \/ stall,
                    !.tsp_ms = IF stall /\ ~sl.stall_reported
                               THEN cfg.sdt_crt * 1000 ELSE @,
                    !.prev_pack_id = IF cfg.sdt_crt > 0 /\ ~stall
                                     THEN pack_id ELSE @,
                    !.tick = ~@,
                    !.last_id = pack_id,
                    !.stall_now = stall]
    /\ spc' = IF shutting_down THEN "returned" ELSE "listen"
    /\ UNCHANGED <<cfg, shutting_down, oreg, num_miscompare, pos_index, counters, stops,
                   exit_status, mono_pack_id, mutexes, pc, rep, mpc,
                   exit_code, files, cmds, wlog, faults>>

(* the timeout that follows the end of the copy *)
SigLast == shutting_down /\ SigTimeout

(* ------------------------------------------------------------------ *)
(* Worker: start of the thread                                         *)
(* ------------------------------------------------------------------ *)
(* does each worker open sg file descriptors of its own? *)
OwnFds(c) ==
    /\ ~ c.same_fds
    /\ (c.in_type = FT_SG \/ c.out_type = FT_SG \/ c.out2_sg)

(* outcomes of the worker's own opens: all succeed, or one fails *)
OpenResults(c) == {TRUE} \cup {ok \in {FALSE} : OwnFds(c) /\ FaultOK}

(* the prologue of read_write_thread: on a failed open 'goto fini',    *)
(* otherwise enter the segment loop                                   *)
OpenFds(w) ==
    /\ pc[w] = "open"
    /\ \E ok \in OpenResults(cfg) :
          /\ pc' = [pc EXCEPT ![w] = IF ok THEN "acquire" ELSE "fini"]
          /\ faults' = IF ok THEN faults ELSE faults + 1
    /\ UNCHANGED <<cfg, shutting_down, sl, oreg, num_miscompare, spc, pos_index, counters, stops, exit_status,
                   mono_pack_id, mutexes, rep, mpc, exit_code, files, cmds,
                   wlog>>

(* ------------------------------------------------------------------ *)
(* Worker: segment acquisition                                         *)
(* ------------------------------------------------------------------ *)
(* Variant: the position index is advanced by one block, not by bpt *)
Acquire_by_one(w) ==
    /\ pc[w] = "acquire"
    /\ rep' = [rep EXCEPT ![w].my_index = pos_index]
    /\ pos_index' = pos_index + 1
    /\ taken' = Append(taken, pos_index)
    /\ pc' = [pc EXCEPT ![w] = "lock_in"]
    /\ UNCHANGED <<cfg, shutting_down, sl, oreg, num_miscompare, spc, counters, stops, exit_status, mono_pack_id, mutexes,
                   mpc, exit_code, files, cmds, owr, wr_done, wr_bad, es_log,
                   faults>>

(* my_index = atomic_fetch_add(&pos_index, bpt) *)
Acquire(w) ==
    /\ pc[w] = "acquire"
    /\ rep' = [rep EXCEPT ![w].my_index = pos_index]
    /\ pos_index' = pos_index + cfg.bpt
    /\ taken' = Append(taken, pos_index)
    /\ pc' = [pc EXCEPT ![w] = "lock_in"]
    /\ UNCHANGED <<cfg, shutting_down, sl, oreg, num_miscompare, spc, counters, stops, exit_status, mono_pack_id, mutexes,
                   mpc, exit_code, files, cmds, owr, wr_done, wr_bad, es_log,
                   faults>>

(* lock in_mutex; leave the loop at or beyond dd_count, else set up the *)
(* segment (blocks, iblk, oblk, num_blks) and keep in_mutex for the read *)
LockIn(w) ==
    /\ pc[w] = "lock_in"
    /\ in_mutex = NoOwner
    /\ IF rep[w].my_index >= cfg.count
       THEN /\ pc' = [pc EXCEPT ![w] =
                        IF Nmrqs(cfg) > 0 /\ rep[w].def_arr # <<>>
                        THEN "tail_flush" ELSE "exit_lock"]
            /\ UNCHANGED <<rep, in_mutex>>
       ELSE /\ in_mutex' = w
            /\ rep' = [rep EXCEPT ![w] =
                  [@ EXCEPT !.blocks = SegBlocks(cfg, rep[w].my_index),
                            !.num_blks = SegBlocks(cfg, rep[w].my_index),
                            !.iblk = cfg.skip + rep[w].my_index,
                            !.oblk = cfg.seek + rep[w].my_index]]
            /\ pc' = [pc EXCEPT ![w] = "read"]
    /\ UNCHANGED <<cfg, shutting_down, sl, oreg, num_miscompare, spc, pos_index, counters, stops, exit_status, mono_pack_id,
                   out_mutex, out2_mutex, mpc, exit_code, files, cmds, wlog,
                   faults>>

(* ------------------------------------------------------------------ *)
(* Worker: read half, input is not an sg device (normal_in_rd)         *)
(* ------------------------------------------------------------------ *)
(* Buffer after a synthetic source that stores the address of the      *)
(* first block in every block of the segment                           *)
SynthFill_first(c, r) ==
    [k \in DOMAIN r.buf |->
        IF k < r.blocks
        THEN IF c.in_zero /\ c.in_ff /\ c.bs >= 4 THEN r.iblk
             ELSE IF c.in_zero THEN 0
             ELSE IF c.in_ff THEN FF_FILL
             ELSE GARBAGE
        ELSE r.buf[k]]

(* Buffer after the synthetic source filled blocks blocks from iblk *)
SynthFill(c, r) ==
    [k \in DOMAIN r.buf |->
        IF k < r.blocks
        THEN IF c.in_zero /\ c.in_ff /\ c.bs >= 4 THEN r.iblk + k
             ELSE IF c.in_zero THEN 0
             ELSE IF c.in_ff THEN FF_FILL
             ELSE GARBAGE
        ELSE r.buf[k]]

(* Byte position a regular read starts at: lseek64 unless same_fds *)
ReadPos(c, r, off) == IF c.same_fds THEN off ELSE r.iblk * c.bs

(* Bytes returned by read(2) of blocks*bs bytes at byte position pos;   *)
(* /dev/zero has no end                                                *)
ReadRes(c, r, pos) ==
    IF c.in_type = FT_DEV_NULL THEN r.blocks * c.bs
    ELSE Min(r.blocks * c.bs, Max(0, c.in_bytes - pos))

(* Buffer after read(2) returned res bytes from byte position pos *)
FileFill(c, r, pos, res) ==
    [k \in DOMAIN r.buf |->
        IF (k + 1) * c.bs <= res
        THEN IF c.in_type = FT_DEV_NULL THEN 0 ELSE (pos \div c.bs) + k
        ELSE IF k * c.bs < res THEN GARBAGE
        ELSE r.buf[k]]

(* Blocks counted for a read that returned res bytes *)
ReadBlocks(c, r, res) ==
    IF res < r.blocks * c.bs
    THEN (res \div c.bs) + (IF res % c.bs > 0 THEN 1 ELSE 0)
    ELSE r.blocks

NormalRead(w) ==
    /\ pc[w] = "read"
    /\ cfg.in_type # FT_SG
    /\ in_mutex' = NoOwner
    /\ pc' = [pc EXCEPT ![w] = AfterRead(cfg)]
    /\ LET r == rep[w]
           pos == ReadPos(cfg, r, i_off)
           res == ReadRes(cfg, r, pos)
           nb == ReadBlocks(cfg, r, res)
       IN  IF cfg.in_type = FT_RANDOM_0_FF
           THEN /\ rep' = [rep EXCEPT ![w] =
                      [@ EXCEPT !.buf = SynthFill(cfg, r),
                                !.rd_ok = @ + r.blocks,
                                !.stop_after_write = FALSE]]
                /\ in_rem_count' = in_rem_count - r.blocks
                /\ UNCHANGED <<i_off, in_partial, stops, faults>>
           ELSE \E bad \in {FALSE} \cup {b \in {TRUE} : FaultOK} :
                IF bad /\ ~ cfg.in_coe
                THEN /\ StopBoth
                     /\ rep' = [rep EXCEPT ![w].stop_after_write = TRUE]
                     /\ i_off' = pos
                     /\ faults' = faults + 1
                     /\ UNCHANGED <<in_rem_count, in_partial>>
                ELSE IF bad
                THEN /\ rep' = [rep EXCEPT ![w] =
                           [@ EXCEPT !.buf = [k \in DOMAIN r.buf |->
                                         IF k < r.num_blks THEN 0 ELSE r.buf[k]],
                                     !.rd_ok = @ + r.blocks,
                                     !.stop_after_write = FALSE]]
                     /\ in_rem_count' = in_rem_count - r.blocks
                     /\ i_off' = pos
                     /\ faults' = faults + 1
                     /\ UNCHANGED <<in_partial, stops>>
                ELSE /\ rep' = [rep EXCEPT ![w] =
                           [@ EXCEPT !.buf = FileFill(cfg, r, pos, res),
                                     !.num_blks = nb,
                                     !.rd_ok = @ + nb,
                                     !.stop_after_write = (res < r.blocks * cfg.bs)]]
                     /\ in_rem_count' = in_rem_count - nb
                     /\ in_partial' = IF res < r.blocks * cfg.bs /\ res % cfg.bs > 0
                                      THEN in_partial + 1 ELSE in_partial
                     /\ i_off' = pos + res
                     /\ UNCHANGED <<stops, faults>>
    /\ UNCHANGED <<cfg, shutting_down, sl, oreg, num_miscompare, spc, pos_index, out_rem_count, out_count, out_blk,
                   out_partial, exit_status, mono_pack_id, out_mutex,
                   out2_mutex, mpc, exit_code, o_off, ofile, cmds, wlog>>

(* ------------------------------------------------------------------ *)
(* Worker: optional address check (chkaddr)                            *)
(* ------------------------------------------------------------------ *)
(* a block of the buffer that was read from the source does not hold   *)
(* its own address                                                      *)
AddrMismatch(r) ==
    \E k \in DOMAIN r.buf :
        k < r.blocks /\ r.buf[k] # GARBAGE /\ r.buf[k] # r.iblk + k

(* outcomes of the comparison: bytes of the buffer that were never      *)
(* written can compare either way                                       *)
ChkOutcomes(r) ==
    IF AddrMismatch(r) THEN {TRUE}
    ELSE IF \E k \in DOMAIN r.buf : k < r.blocks /\ r.buf[k] = GARBAGE
         THEN {TRUE, FALSE}
         ELSE {FALSE}

ChkAddr(w) ==
    /\ pc[w] = "chkaddr"
    /\ \E bad \in ChkOutcomes(rep[w]) :
          IF bad
          THEN /\ exit_status' = SG_LIB_CAT_MISCOMPARE
               /\ es_log' = Append(es_log, SG_LIB_CAT_MISCOMPARE)
               /\ num_miscompare' = num_miscompare + 1
               /\ StopBoth
          ELSE UNCHANGED <<exit_status, es_log, stops, num_miscompare>>
    /\ pc' = [pc EXCEPT ![w] = "lock_out"]
    /\ UNCHANGED <<cfg, shutting_down, sl, oreg, spc, pos_index, counters, mono_pack_id, mutexes, rep, mpc,
                   exit_code, files, cmds, owr, wr_done, wr_bad, taken, faults>>

(* ------------------------------------------------------------------ *)
(* Worker: ordering gate and the stop test before the write half       *)
(* ------------------------------------------------------------------ *)
(* Variant: nothing is written to the OFREG fd *)
TeeWrite_none(c, log, oblk) == log

(* write(rep->outregfd, ...) of the segment at oblk, when ofreg= is     *)
(* given; made holding out_mutex, right after the output range is taken *)
TeeWrite(c, log, oblk) == IF c.outreg THEN Append(log, oblk) ELSE log

(* lock out_mutex (first entry, or on return from pthread_cond_wait);   *)
(* wait again, leave the loop, or pass and claim the output range, and  *)
(* write the segment to the OFREG fd.                                   *)
LockOut(w) ==
    /\ pc[w] = "lock_out"
    /\ out_mutex = NoOwner
    /\ LET r == rep[w] IN
       IF MustWait(cfg, out_stop, r.oblk, out_blk)
       THEN /\ pc' = [pc EXCEPT ![w] = "cv_enter"]
            /\ out_mutex' = w
            /\ UNCHANGED <<out_stop, out_count, out_blk, oreg>>
       ELSE IF MustLeave(out_stop, out_count)
       THEN /\ out_stop' = TRUE
            /\ pc' = [pc EXCEPT ![w] = "exit_lock"]
            /\ UNCHANGED <<out_mutex, out_count, out_blk, oreg>>
       ELSE /\ out_stop' = (out_stop \/ r.stop_after_write)
            /\ out_count' = out_count - r.blocks
            /\ out_blk' = out_blk + r.blocks
            /\ out_mutex' = w
            /\ oreg' = TeeWrite(cfg, oreg, r.oblk)
            /\ pc' = [pc EXCEPT ![w] = "write"]
    /\ UNCHANGED <<cfg, shutting_down, sl, num_miscompare, spc, pos_index, in_rem_count, out_rem_count, in_partial,
                   out_partial, in_stop, exit_status, mono_pack_id, in_mutex,
                   out2_mutex, rep, mpc, exit_code, files, cmds, wlog, faults>>

(* pthread_cond_wait: release out_mutex and block on out_sync_cv *)
CvWait(w) ==
    /\ pc[w] = "cv_enter"
    /\ out_mutex' = NoOwner
    /\ pc' = [pc EXCEPT ![w] = "cv_wait"]
    /\ UNCHANGED <<cfg, shutting_down, sl, oreg, num_miscompare, spc, pos_index, counters, stops, exit_status,
                   mono_pack_id, in_mutex, out2_mutex, rep, mpc, exit_code,
                   files, cmds, wlog, faults>>

(* ------------------------------------------------------------------ *)
(* Worker: write half, output is not an sg device                      *)
(* ------------------------------------------------------------------ *)
(* label that follows the primary write: OFILE2 if it is an sg device *)
AfterWrite(c) == IF c.out2_sg THEN "lock_out2" ELSE "iter_end"

(* Regular file after write(2) of blocks blocks from buf at offset off *)
FileWrite(f, off, r) ==
    [a \in DOMAIN f |->
        IF a >= off /\ a < off + r.blocks THEN r.buf[a - off] ELSE f[a]]

(* Variant: the null sink leaves out_rem_count alone *)
NullWrite_keep(w) ==
    /\ pc[w] = "write"
    /\ cfg.out_type = FT_DEV_NULL
    /\ out_mutex' = NoOwner
    /\ pc' = [pc EXCEPT ![w] = AfterWrite(cfg)]
    /\ UNCHANGED <<cfg, shutting_down, sl, oreg, num_miscompare, spc, pos_index, in_rem_count, out_rem_count, out_count,
                   out_blk, in_partial, out_partial, stops, exit_status,
                   mono_pack_id, in_mutex, out2_mutex, rep, mpc, exit_code,
                   files, cmds, wlog, faults>>

(* the null sink: no write, out_rem_count reduced, out_mutex unlocked *)
NullWrite(w) ==
    /\ pc[w] = "write"
    /\ cfg.out_type = FT_DEV_NULL
    /\ out_rem_count' = out_rem_count - rep[w].blocks
    /\ out_mutex' = NoOwner
    /\ pc' = [pc EXCEPT ![w] = AfterWrite(cfg)]
    /\ UNCHANGED <<cfg, shutting_down, sl, oreg, num_miscompare, spc, pos_index, in_rem_count, out_count, out_blk,
                   in_partial, out_partial, stops, exit_status, mono_pack_id,
                   in_mutex, out2_mutex, rep, mpc, exit_code, files, cmds,
                   wlog, faults>>

(* normal_out_wr, then unlock out_mutex *)
NormalWrite(w) ==
    /\ pc[w] = "write"
    /\ cfg.out_type = FT_OTHER
    /\ out_mutex' = NoOwner
    /\ pc' = [pc EXCEPT ![w] = AfterWrite(cfg)]
    /\ owr' = Append(owr, rep[w].oblk)
    /\ wr_bad' = wr_bad \cup BadPairs(rep[w].oblk)
    /\ LET r == rep[w] IN
       \E bad \in {FALSE} \cup {b \in {TRUE} : FaultOK} :
          IF bad /\ ~ cfg.out_coe
          THEN /\ StopBoth
               /\ faults' = faults + 1
               /\ UNCHANGED <<out_rem_count, o_off, ofile, wr_done, rep>>
          ELSE IF bad
          THEN /\ out_rem_count' = out_rem_count - r.num_blks
               /\ faults' = faults + 1
               /\ UNCHANGED <<stops, o_off, ofile, wr_done, rep>>
          ELSE /\ ofile' = FileWrite(ofile, o_off, r)
               /\ o_off' = o_off + r.blocks
               /\ out_rem_count' = out_rem_count - r.blocks
               /\ wr_done' = wr_done \cup {r.oblk}
               /\ UNCHANGED <<stops, faults, rep>>
    /\ UNCHANGED <<cfg, shutting_down, sl, oreg, num_miscompare, spc, pos_index, in_rem_count, out_count, out_blk,
                   in_partial, out_partial, exit_status, mono_pack_id,
                   in_mutex, out2_mutex, mpc, exit_code, i_off, cmds, taken,
                   es_log>>

(* ------------------------------------------------------------------ *)
(* Worker: end of an iteration, and leaving the loop                   *)
(* ------------------------------------------------------------------ *)
IterEnd(w) ==
    /\ pc[w] = "iter_end"
    /\ IF rep[w].num_blks = 0 /\ Nmrqs(cfg) > 0 /\ rep[w].def_arr # <<>>
       THEN /\ pc' = [pc EXCEPT ![w] = "tail_flush0"]
            /\ UNCHANGED <<out_stop, rep, mpc>>
       ELSE IF rep[w].num_blks = 0
       THEN /\ out_stop' = TRUE
            /\ rep' = [rep EXCEPT ![w].stop_after_write = TRUE]
            /\ pc' = [pc EXCEPT ![w] = "exit_lock"]
            /\ UNCHANGED mpc
       ELSE /\ pc' = [Woken(pc) EXCEPT ![w] =
                        IF rep[w].stop_after_write THEN "exit_lock" ELSE "acquire"]
            /\ mpc' = MainWoken(mpc)
            /\ UNCHANGED <<out_stop, rep>>
    /\ UNCHANGED <<cfg, shutting_down, sl, oreg, num_miscompare, spc, pos_index, counters, in_stop, exit_status,
                   mono_pack_id, mutexes, exit_code, files, cmds, wlog, faults>>

(* after the loop: lock in_mutex, set in_stop, unlock *)
ExitLock(w) ==
    /\ pc[w] = "exit_lock"
    /\ in_mutex = NoOwner
    /\ in_stop' = TRUE
    /\ pc' = [pc EXCEPT ![w] = "fini"]
    /\ UNCHANGED <<cfg, shutting_down, sl, oreg, num_miscompare, spc, pos_index, counters, out_stop, exit_status,
                   mono_pack_id, mutexes, rep, mpc, exit_code, files, cmds,
                   wlog, faults>>

(* fini: release the worker's resources, broadcast out_sync_cv, return *)
Fini(w) ==
    /\ pc[w] = "fini"
    /\ pc' = [Woken(pc) EXCEPT ![w] = "done"]
    /\ mpc' = MainWoken(mpc)
    /\ UNCHANGED <<cfg, shutting_down, sl, oreg, num_miscompare, spc, pos_index, counters, stops, exit_status,
                   mono_pack_id, mutexes, rep, exit_code, files, cmds, wlog,
                   faults>>

(* ------------------------------------------------------------------ *)
(* sg pass-through: pack-ids and CDB contents (sg_start_io)            *)
(* ------------------------------------------------------------------ *)
(* Variant: every command is given the value of mono_pack_id *)
PackId_mono(c, r, wr, mono) == mono

(* pack_id given to a command; mono is the value of mono_pack_id *)
PackId(c, r, wr, mono) ==
    IF both_sg(c)
    THEN IF wr THEN r.rd_p_id + 1 ELSE 2 * mono
    ELSE mono

(* Variant: a write-side command never takes a new value *)
PackIdFetched_never(c, wr) == FALSE

(* does the command take a new value from mono_pack_id? *)
PackIdFetched(c, wr) == ~ (both_sg(c) /\ wr)

(* starting LBA and block count put in the CDB *)
CdbLba(c, r, wr) ==
    IF wr
    THEN IF c.out_v4 /\ r.dout_is_split THEN r.oblk + r.blk_offset ELSE r.oblk
    ELSE r.iblk

CdbBlks(c, r, wr) ==
    IF wr /\ c.out_v4 /\ r.dout_is_split THEN r.blks ELSE r.num_blks

(* Variant: the FUA bit is never set *)
CdbFua_never(c, r, wr) == FALSE

(* FUA bit of the CDB: cleared for VERIFY, overwritten for PRE-FETCH *)
CdbFua(c, r, wr) ==
    /\ IF wr THEN c.out_fua ELSE c.in_fua
    /\ ~ (wr /\ c.verify)
    /\ ~ (wr /\ r.prefetch)

(* is the data of a READ copied to the worker's buffer? (NO_DXFER) *)
ReadXfer(c) == ~ (c.has_share /\ ~ c.outreg)

(* results sg_finish_io can give for a command *)
FinishResults(c, wr) ==
    {0} \cup
    {x \in {SG_LIB_CAT_ABORTED_COMMAND, SG_LIB_CAT_MEDIUM_HARD,
            SG_LIB_CAT_NOT_READY, SG_LIB_CAT_MISCOMPARE, RES_FAIL} :
        FaultOK /\ (x = SG_LIB_CAT_MISCOMPARE => (wr /\ c.verify))}

(* results sg_start_io can give: 0, 1 for ENOMEM, -1 for another error *)
SubmitResults == {0} \cup {x \in {1, RES_FAIL} : FaultOK}

(* Variant: any failed submission ends the process *)
Terminates_any(res) == res # 0

(* sg_in_rd_cmd, sg_out_wr_cmd: if (1 == res) err_exit(ENOMEM, ...) *)
Terminates(res) == res = 1

(* err_exit called by worker w: exit(1) ends the process, every thread  *)
(* stops where it stands and nothing owns a mutex any more              *)
ErrExit(w) ==
    /\ pc' = [v \in Workers |->
                IF v = w THEN "err_exit"
                ELSE IF pc[v] \in {"idle", "done"} THEN pc[v] ELSE "killed"]
    /\ mpc' = "aborted"
    /\ exit_code' = 1
    /\ in_mutex' = NoOwner
    /\ out_mutex' = NoOwner
    /\ out2_mutex' = NoOwner

(* does sg_start_io defer the command to the worker's MRQ array? *)
Mrq(c, wr) == Nmrqs(c) > 0 /\ (IF wr THEN c.out_v4 ELSE c.in_v4)

(* Variant: the array is never found full *)
Full_never(c, r) == FALSE

(* sg_start_io: the deferred array of r holds nmrqs requests or more *)
Full(c, r) == Len(r.def_arr) >= Nmrqs(c)

(* xtr set up for the (lower half of the) write in sg_out_wr_cmd *)
SplitSetup(c, r) ==
    IF c.ofsplit > 0 /\ r.num_blks > c.ofsplit
    THEN [r EXCEPT !.prefetch = FALSE, !.dout_is_split = TRUE,
                   !.blk_offset = 0, !.blks = c.ofsplit, !.nblks = c.ofsplit,
                   !.hpv4_ind = 0]
    ELSE [r EXCEPT !.prefetch = FALSE, !.dout_is_split = FALSE,
                   !.blk_offset = 0, !.blks = 0, !.nblks = r.num_blks,
                   !.hpv4_ind = 0]

(* ------------------------------------------------------------------ *)
(* Worker: read half, input is an sg device (sg_in_rd_cmd)             *)
(* ------------------------------------------------------------------ *)
(* Variant: in_mutex is kept while the READ is in flight *)
Submitted_keep(w) == w

(* owner of in_mutex after a successful sg_start_io of a READ: 'Now     *)
(* release in mutex to let other reads run in parallel'                 *)
Submitted(w) == NoOwner

SgReadStart(w) ==
    /\ pc[w] = "read"
    /\ cfg.in_type = FT_SG
    /\ ~ Mrq(cfg, FALSE)
    /\ LET r == rep[w]
           id == PackId(cfg, r, FALSE, mono_pack_id)
       IN  /\ mono_pack_id' = mono_pack_id + 1
           /\ \E res \in SubmitResults :
                /\ rep' = [rep EXCEPT ![w] =
                      [@ EXCEPT !.pack_id = id, !.res = res,
                                !.rd_p_id = IF both_sg(cfg) THEN id ELSE @]]
                /\ IF Terminates(res)
                   THEN /\ ErrExit(w)
                        /\ faults' = faults + 1
                        /\ UNCHANGED <<stops, cmds>>
                   ELSE IF res = 0
                   THEN /\ cmds' = Append(cmds, [pid |-> id, op |-> "R",
                                     lba |-> CdbLba(cfg, r, FALSE),
                                     nb |-> CdbBlks(cfg, r, FALSE), tid |-> w,
                                     fua |-> CdbFua(cfg, r, FALSE),
                                     sz |-> cfg.cdbsz])
                        /\ in_mutex' = Submitted(w)
                        /\ pc' = [pc EXCEPT ![w] = "rd_finish"]
                        /\ UNCHANGED <<stops, faults, out_mutex, out2_mutex,
                                       mpc, exit_code>>
                   ELSE /\ StopBoth
                        /\ faults' = faults + 1
                        /\ in_mutex' = NoOwner
                        /\ pc' = [pc EXCEPT ![w] = AfterRead(cfg)]
                        /\ UNCHANGED <<cmds, out_mutex, out2_mutex, mpc,
                                       exit_code>>
    /\ UNCHANGED <<cfg, shutting_down, sl, oreg, num_miscompare, spc, pos_index, counters, exit_status, files, wlog>>

SgReadFinish(w) ==
    /\ pc[w] = "rd_finish"
    /\ \E res \in FinishResults(cfg, FALSE) :
         LET r == rep[w]
             zeroed == [k \in DOMAIN r.buf |-> IF k < r.num_blks THEN 0 ELSE r.buf[k]]
             filled == [k \in DOMAIN r.buf |->
                          IF k < r.num_blks /\ ReadXfer(cfg) THEN r.iblk + k ELSE r.buf[k]]
         IN  /\ faults' = IF res = 0 THEN faults ELSE faults + 1
             /\ IF res = SG_LIB_CAT_ABORTED_COMMAND
                THEN /\ pc' = [pc EXCEPT ![w] = "rd_relock"]
                     /\ UNCHANGED rep
                ELSE IF res = 0
                THEN /\ pc' = [pc EXCEPT ![w] = "rd_credit"]
                     /\ rep' = [rep EXCEPT ![w] =
                           [@ EXCEPT !.buf = filled, !.rd_ok = @ + r.num_blks]]
                ELSE IF res = SG_LIB_CAT_MEDIUM_HARD /\ cfg.in_coe
                THEN /\ pc' = [pc EXCEPT ![w] = "rd_credit"]
                     /\ rep' = [rep EXCEPT ![w] =
                           [@ EXCEPT !.buf = zeroed, !.rd_ok = @ + r.num_blks]]
                ELSE /\ pc' = [pc EXCEPT ![w] = "es_check"]
                     /\ rep' = [rep EXCEPT ![w] =
                           [@ EXCEPT !.res = res, !.ret = AfterRead(cfg)]]
    /\ UNCHANGED <<cfg, shutting_down, sl, oreg, num_miscompare, spc, pos_index, counters, stops, exit_status, mono_pack_id,
                   mutexes, mpc, exit_code, files, cmds, wlog>>

(* AbortedCommand or UnitAttention: re-acquire in_mutex and loop again *)
SgReadRelock(w) ==
    /\ pc[w] = "rd_relock"
    /\ in_mutex = NoOwner
    /\ in_mutex' = w
    /\ pc' = [pc EXCEPT ![w] = "read"]
    /\ UNCHANGED <<cfg, shutting_down, sl, oreg, num_miscompare, spc, pos_index, counters, stops, exit_status, mono_pack_id,
                   out_mutex, out2_mutex, rep, mpc, exit_code, files, cmds,
                   wlog, faults>>

(* case 0: lock in_mutex, in_rem_count -= num_blks, unlock *)
SgReadCredit(w) ==
    /\ pc[w] = "rd_credit"
    /\ in_mutex = NoOwner
    /\ in_rem_count' = in_rem_count - rep[w].num_blks
    /\ pc' = [pc EXCEPT ![w] = AfterRead(cfg)]
    /\ UNCHANGED <<cfg, shutting_down, sl, oreg, num_miscompare, spc, pos_index, out_rem_count, out_count, out_blk,
                   in_partial, out_partial, stops, exit_status, mono_pack_id,
                   mutexes, rep, mpc, exit_code, files, cmds, wlog, faults>>

(* ------------------------------------------------------------------ *)
(* Worker: recording a fatal result                                    *)
(*   if (exit_status <= 0) exit_status = res;  stop_both(clp);         *)
(* exit_status is a plain int: the test and the store are two steps.   *)
(* ------------------------------------------------------------------ *)
EsCheck(w) ==
    /\ pc[w] = "es_check"
    /\ rep' = [rep EXCEPT ![w].saw = (exit_status <= 0)]
    /\ pc' = [pc EXCEPT ![w] = "es_set"]
    /\ UNCHANGED <<cfg, shutting_down, sl, oreg, num_miscompare, spc, pos_index, counters, stops, exit_status, mono_pack_id,
                   mutexes, mpc, exit_code, files, cmds, wlog, faults>>

EsSet(w) ==
    /\ pc[w] = "es_set"
    /\ exit_status' = IF rep[w].saw THEN rep[w].res ELSE exit_status
    /\ es_log' = IF rep[w].saw THEN Append(es_log, rep[w].res) ELSE es_log
    /\ StopBoth
    /\ rep' = [rep EXCEPT ![w] = [@ EXCEPT !.saw = FALSE, !.ret = "none"]]
    /\ pc' = [pc EXCEPT ![w] = rep[w].ret]
    /\ UNCHANGED <<cfg, shutting_down, sl, oreg, num_miscompare, spc, pos_index, counters, mono_pack_id, mutexes, mpc,
                   exit_code, files, cmds, owr, wr_done, wr_bad, taken, faults>>

(* ------------------------------------------------------------------ *)
(* Worker: write half, output is an sg device (sg_out_wr_cmd)          *)
(* ------------------------------------------------------------------ *)
(* entry of sg_out_wr_cmd(rep, def_arr, false, clp->prefetch) *)
SgWrBegin(w) ==
    /\ pc[w] = "write"
    /\ cfg.out_type = FT_SG
    /\ IF cfg.prefetch
       THEN /\ rep' = [rep EXCEPT ![w] =
                  [@ EXCEPT !.is_wr2 = FALSE, !.prefetch = TRUE,
                            !.dout_is_split = FALSE,
                            !.nblks = rep[w].num_blks]]
            /\ pc' = [pc EXCEPT ![w] = "pf_start"]
       ELSE /\ rep' = [rep EXCEPT ![w] = SplitSetup(cfg, [@ EXCEPT !.is_wr2 = FALSE])]
            /\ pc' = [pc EXCEPT ![w] = "wr_start"]
    /\ UNCHANGED <<cfg, shutting_down, sl, oreg, num_miscompare, spc, pos_index, counters, stops, exit_status, mono_pack_id,
                   mutexes, mpc, exit_code, files, cmds, wlog, faults>>

(* the mutex sg_out_wr_cmd works with: out2_mutex for OFILE2 *)
MutexpFree(r) == IF r.is_wr2 THEN out2_mutex = NoOwner ELSE out_mutex = NoOwner
(* Variant: sg_out_wr_cmd works on out_mutex for OFILE2 as well *)
MutexpSet_out(r, v) == out_mutex' = v /\ UNCHANGED out2_mutex

MutexpSet(r, v) ==
    IF r.is_wr2
    THEN out2_mutex' = v /\ UNCHANGED out_mutex
    ELSE out_mutex' = v /\ UNCHANGED out2_mutex

(* sg_start_io of the PRE-FETCH, WRITE or VERIFY; mutexp released after it *)
SgWrStart(w) ==
    /\ pc[w] \in {"pf_start", "wr_start"}
    /\ ~ Mrq(cfg, TRUE)
    /\ LET r == rep[w]
           id == PackId(cfg, r, TRUE, mono_pack_id)
           cmd == [pid |-> id,
                   op |-> IF r.prefetch THEN "PF" ELSE IF r.is_wr2 THEN "W2" ELSE "W",
                   lba |-> CdbLba(cfg, r, TRUE), nb |-> CdbBlks(cfg, r, TRUE),
                   tid |-> w, fua |-> CdbFua(cfg, r, TRUE), sz |-> cfg.cdbsz]
           primary == ~ r.prefetch /\ ~ r.is_wr2
       IN  /\ mono_pack_id' = IF PackIdFetched(cfg, TRUE)
                              THEN mono_pack_id + 1 ELSE mono_pack_id
           /\ \E res \in SubmitResults :
                /\ rep' = [rep EXCEPT ![w] =
                      [@ EXCEPT !.pack_id = id, !.res = res]]
                /\ IF Terminates(res)
                   THEN /\ ErrExit(w)
                        /\ faults' = faults + 1
                        /\ UNCHANGED <<stops, cmds, owr, wr_bad>>
                   ELSE IF res = 0
                   THEN /\ cmds' = Append(cmds, cmd)
                        /\ owr' = IF primary THEN Append(owr, cmd.lba) ELSE owr
                        /\ wr_bad' = IF primary
                                     THEN wr_bad \cup BadPairs(cmd.lba)
                                     ELSE wr_bad
                        /\ MutexpSet(r, NoOwner)
                        /\ pc' = [pc EXCEPT ![w] =
                                    IF r.prefetch THEN "pf_finish"
                                    ELSE "wr_finish"]
                        /\ UNCHANGED <<stops, faults, in_mutex, mpc,
                                       exit_code>>
                   ELSE /\ StopBoth
                        /\ faults' = faults + 1
                        /\ MutexpSet(r, NoOwner)
                        /\ pc' = [pc EXCEPT ![w] = "wr_fini"]
                        /\ UNCHANGED <<cmds, owr, wr_bad, in_mutex, mpc,
                                       exit_code>>
    /\ UNCHANGED <<cfg, shutting_down, sl, oreg, num_miscompare, spc, pos_index, counters, exit_status, files, wr_done,
                   taken, es_log>>

(* sg_finish_io of the PRE-FETCH *)
SgPfFinish(w) ==
    /\ pc[w] = "pf_finish"
    /\ \E res \in FinishResults(cfg, TRUE) \ {SG_LIB_CAT_MISCOMPARE} :
         /\ faults' = IF res = 0 THEN faults ELSE faults + 1
         /\ IF res = SG_LIB_CAT_ABORTED_COMMAND
            THEN /\ pc' = [pc EXCEPT ![w] = "pf_relock"]
                 /\ UNCHANGED rep
            ELSE IF res = 0
            THEN /\ pc' = [pc EXCEPT ![w] = "pf_done"]
                 /\ UNCHANGED rep
            ELSE /\ pc' = [pc EXCEPT ![w] = "es_check"]
                 /\ rep' = [rep EXCEPT ![w] =
                       [@ EXCEPT !.res = res, !.ret = "wr_fini"]]
    /\ UNCHANGED <<cfg, shutting_down, sl, oreg, num_miscompare, spc, pos_index, counters, stops, exit_status, mono_pack_id,
                   mutexes, mpc, exit_code, files, cmds, wlog>>

(* re-acquire mutexp: to repeat the PRE-FETCH, or to go on to the write *)
SgPfRelock(w) ==
    /\ pc[w] \in {"pf_relock", "pf_done"}
    /\ MutexpFree(rep[w])
    /\ MutexpSet(rep[w], w)
    /\ IF pc[w] = "pf_relock"
       THEN /\ pc' = [pc EXCEPT ![w] = "pf_start"]
            /\ UNCHANGED rep
       ELSE /\ pc' = [pc EXCEPT ![w] = "wr_start"]
            /\ rep' = [rep EXCEPT ![w] = SplitSetup(cfg, @)]
    /\ UNCHANGED <<cfg, shutting_down, sl, oreg, num_miscompare, spc, pos_index, counters, stops, exit_status, mono_pack_id,
                   in_mutex, mpc, exit_code, files, cmds, wlog, faults>>

(* Variant: with coe a Miscompare is logged and the copy goes on *)
SgWrFinish_coe(w) ==
    /\ pc[w] = "wr_finish"
    /\ \E res \in FinishResults(cfg, TRUE) :
         LET r == rep[w]
             good == res = 0 \/ (res \in {SG_LIB_CAT_MEDIUM_HARD,
                                          SG_LIB_CAT_MISCOMPARE}
                                /\ cfg.out_coe)
         IN  /\ faults' = IF res = 0 THEN faults ELSE faults + 1
             /\ num_miscompare' = IF res = SG_LIB_CAT_MISCOMPARE
                                  THEN num_miscompare + 2 ELSE num_miscompare
             /\ wr_done' = IF res = 0 /\ ~ r.is_wr2
                           THEN wr_done \cup {CdbLba(cfg, r, TRUE)} ELSE wr_done
             /\ IF res = SG_LIB_CAT_ABORTED_COMMAND
                THEN /\ pc' = [pc EXCEPT ![w] = "wr_relock"]
                     /\ UNCHANGED rep
                ELSE IF good
                THEN /\ pc' = [pc EXCEPT ![w] =
                                 IF r.is_wr2 THEN "wr_fini" ELSE "wr_credit"]
                     /\ UNCHANGED rep
                ELSE /\ pc' = [pc EXCEPT ![w] = "es_check"]
                     /\ rep' = [rep EXCEPT ![w] =
                           [@ EXCEPT !.res = res, !.ret = "wr_fini"]]
    /\ UNCHANGED <<cfg, shutting_down, sl, oreg, spc, pos_index, counters, stops, exit_status, mono_pack_id,
                   mutexes, mpc, exit_code, files, cmds, owr, wr_bad, taken,
                   es_log>>

(* sg_finish_io of the WRITE or VERIFY; a Miscompare is added to      *)
(* num_miscompare by sg_finish_io and again by sg_out_wr_cmd          *)
SgWrFinish(w) ==
    /\ pc[w] = "wr_finish"
    /\ \E res \in FinishResults(cfg, TRUE) :
         LET r == rep[w]
             good == res = 0 \/ (res = SG_LIB_CAT_MEDIUM_HARD /\ cfg.out_coe)
         IN  /\ faults' = IF res = 0 THEN faults ELSE faults + 1
             /\ num_miscompare' = IF res = SG_LIB_CAT_MISCOMPARE
                                  THEN num_miscompare + 2 ELSE num_miscompare
             /\ wr_done' = IF res = 0 /\ ~ r.is_wr2
                           THEN wr_done \cup {CdbLba(cfg, r, TRUE)} ELSE wr_done
             /\ IF res = SG_LIB_CAT_ABORTED_COMMAND
                THEN /\ pc' = [pc EXCEPT ![w] = "wr_relock"]
                     /\ UNCHANGED rep
                ELSE IF good
                THEN /\ pc' = [pc EXCEPT ![w] =
                                 IF r.is_wr2 THEN "wr_fini" ELSE "wr_credit"]
                     /\ UNCHANGED rep
                ELSE /\ pc' = [pc EXCEPT ![w] = "es_check"]
                     /\ rep' = [rep EXCEPT ![w] =
                           [@ EXCEPT !.res = res, !.ret = "wr_fini"]]
    /\ UNCHANGED <<cfg, shutting_down, sl, oreg, spc, pos_index, counters, stops, exit_status, mono_pack_id,
                   mutexes, mpc, exit_code, files, cmds, owr, wr_bad, taken,
                   es_log>>

(* Variant: the blocks are taken off out_rem_count at every attempt *)
SgWrRelock_credit(w) ==
    /\ pc[w] = "wr_relock"
    /\ MutexpFree(rep[w])
    /\ MutexpSet(rep[w], w)
    /\ out_rem_count' = out_rem_count - rep[w].nblks
    /\ pc' = [pc EXCEPT ![w] = "wr_start"]
    /\ UNCHANGED <<cfg, shutting_down, sl, oreg, num_miscompare, spc, pos_index, in_rem_count, out_count, out_blk,
                   in_partial, out_partial, stops, exit_status, mono_pack_id,
                   in_mutex, rep, mpc, exit_code, files, cmds, wlog, faults>>

(* AbortedCommand or UnitAttention: re-acquire mutexp and loop around *)
SgWrRelock(w) ==
    /\ pc[w] = "wr_relock"
    /\ MutexpFree(rep[w])
    /\ MutexpSet(rep[w], w)
    /\ pc' = [pc EXCEPT ![w] = "wr_start"]
    /\ UNCHANGED <<cfg, shutting_down, sl, oreg, num_miscompare, spc, pos_index, counters, stops, exit_status, mono_pack_id,
                   in_mutex, rep, mpc, exit_code, files, cmds, wlog, faults>>

(* Variant: a completed WRITE is not taken off out_rem_count *)
SgWrCredit_none(w) ==
    /\ pc[w] = "wr_credit"
    /\ MutexpFree(rep[w])
    /\ pc' = [pc EXCEPT ![w] = "wr_fini"]
    /\ UNCHANGED <<cfg, shutting_down, sl, oreg, num_miscompare, spc, pos_index, counters, stops, exit_status, mono_pack_id,
                   mutexes, rep, mpc, exit_code, files, cmds, wlog, faults>>

(* lock mutexp, out_rem_count -= nblks, unlock (primary write only) *)
SgWrCredit(w) ==
    /\ pc[w] = "wr_credit"
    /\ MutexpFree(rep[w])
    /\ out_rem_count' = out_rem_count - rep[w].nblks
    /\ pc' = [pc EXCEPT ![w] = "wr_fini"]
    /\ UNCHANGED <<cfg, shutting_down, sl, oreg, num_miscompare, spc, pos_index, in_rem_count, out_count, out_blk,
                   in_partial, out_partial, stops, exit_status, mono_pack_id,
                   mutexes, rep, mpc, exit_code, files, cmds, wlog, faults>>

(* fini: set up and start the upper half of a split, or return *)
SgWrFini(w) ==
    /\ pc[w] = "wr_fini"
    /\ LET r == rep[w] IN
       IF r.dout_is_split /\ r.hpv4_ind = 0 /\ r.num_blks > cfg.ofsplit
       THEN /\ MutexpFree(r)
            /\ MutexpSet(r, w)
            /\ rep' = [rep EXCEPT ![w] =
                  [@ EXCEPT !.hpv4_ind = 1, !.blk_offset = cfg.ofsplit,
                            !.blks = r.num_blks - cfg.ofsplit,
                            !.nblks = r.num_blks - cfg.ofsplit]]
            /\ pc' = [pc EXCEPT ![w] = "wr_start"]
       ELSE /\ rep' = [rep EXCEPT ![w] =
                  [@ EXCEPT !.is_wr2 = FALSE, !.prefetch = FALSE,
                            !.dout_is_split = FALSE, !.hpv4_ind = 0,
                            !.blk_offset = 0, !.blks = 0, !.nblks = 0]]
            /\ pc' = [pc EXCEPT ![w] =
                        IF r.is_wr2
                        THEN IF cfg.has_share THEN "swap_back" ELSE "iter_end"
                        ELSE AfterWrite(cfg)]
            /\ UNCHANGED <<out_mutex, out2_mutex>>
    /\ UNCHANGED <<cfg, shutting_down, sl, oreg, num_miscompare, spc, pos_index, counters, stops, exit_status, mono_pack_id,
                   in_mutex, mpc, exit_code, files, cmds, wlog, faults>>

(* value of err when the loop of sg_wr_swap_share is left: the ioctl    *)
(* gave e at the attempt numbered k (0 for success)                     *)
SwapErr(e, k) == IF e = EBUSY /\ k > SwapRetries THEN EBUSY ELSE 0

(* results the SG_SET_GET_EXTENDED ioctl can give at this attempt; a    *)
(* busy read side can stay busy over the attempts of one call           *)
SwapResults(r) == {0} \cup {e \in {EBUSY, ENOMEM} : FaultOK \/ r.swap_k > 0}

(* sg_wr_swap_share(rep, to_fd, before): one ioctl per step; the share  *)
(* partner of the read fd changes only when the ioctl succeeds; the    *)
(* callers in sg_out_wr_cmd do not look at the value returned          *)
SgWrSwapShare(w) ==
    /\ pc[w] \in {"swap_to2", "swap_back"}
    /\ LET r == rep[w]
           to_fd == IF pc[w] = "swap_to2" THEN "out2" ELSE "out"
           after == IF pc[w] = "swap_to2" THEN "wr_start" ELSE "iter_end"
       IN  \E e \in SwapResults(r) :
             /\ faults' = IF e # 0 /\ r.swap_k = 0 THEN faults + 1 ELSE faults
             /\ IF e = EBUSY /\ r.swap_k <= SwapRetries
                THEN /\ rep' = [rep EXCEPT ![w].swap_k = @ + 1]
                     /\ UNCHANGED pc
                ELSE /\ rep' = [rep EXCEPT ![w] =
                           [@ EXCEPT !.swap_k = 0,
                                     !.share = IF e = 0 THEN to_fd ELSE @,
                                     !.swap_ok = (e = 0),
                                     !.swap_ret = (SwapErr(e, r.swap_k) = 0)]]
                     /\ pc' = [pc EXCEPT ![w] = after]
    /\ UNCHANGED <<cfg, shutting_down, sl, oreg, num_miscompare, spc, pos_index, counters, stops,
                   exit_status, mono_pack_id, mutexes, mpc, exit_code, files,
                   cmds, wlog>>

(* Output to OFILE2 if sg device: lock out2_mutex, enter sg_out_wr_cmd *)
LockOut2(w) ==
    /\ pc[w] = "lock_out2"
    /\ out2_mutex = NoOwner
    /\ out2_mutex' = w
    /\ rep' = [rep EXCEPT ![w] = SplitSetup(cfg, [@ EXCEPT !.is_wr2 = TRUE])]
    /\ pc' = [pc EXCEPT ![w] = IF cfg.has_share THEN "swap_to2"
                                ELSE "wr_start"]
    /\ UNCHANGED <<cfg, shutting_down, sl, oreg, num_miscompare, spc, pos_index, counters, stops, exit_status, mono_pack_id,
                   in_mutex, out_mutex, mpc, exit_code, files, cmds, wlog,
                   faults>>

(* ------------------------------------------------------------------ *)
(* Multiple requests (MRQ): commands are deferred to the worker's      *)
(* array and sent in one transaction (sgh_do_deferred_mrq)             *)
(* ------------------------------------------------------------------ *)
(* does entry e of the array carry data in (wr = FALSE) or out? *)
Carries(e, wr) == IF wr THEN e.op \in {"W", "W2"} ELSE e.op = "R"

(* blocks carried in one direction by the entries 1 .. n that are in G *)
RECURSIVE SumBlks(_, _, _, _)
SumBlks(arr, n, G, wr) ==
    IF n = 0 THEN 0
    ELSE SumBlks(arr, n - 1, G, wr)
            + (IF n \in G /\ Carries(arr[n], wr) THEN arr[n].nb ELSE 0)

(* process_mrq_response over the first num entries; G holds the entries *)
(* the pass-through completed without error                             *)
ProcessMrqResponse(arr, num, G) ==
    [n_good |-> Cardinality(G \cap (1 .. num)),
     good_inblks |-> SumBlks(arr, num, G, FALSE),
     good_outblks |-> SumBlks(arr, num, G, TRUE)]

(* blocks added back to a remaining count: queued minus finished, if > 0 *)
Resid(q, fin) == IF q - fin > 0 THEN q - fin ELSE 0

(* is the full non-blocking path taken? *)
AsyncPath(c) == c.mrq_async /\ ~ both_sg(c)

(* what the pass-through can do with a transaction of n requests: the   *)
(* ioctl fails (ok = FALSE), or it is accepted, h1 responses come back   *)
(* with the first receive and the requests in G complete without error   *)
FlushChoices(c, n) ==
    LET H == IF AsyncPath(c) THEN (n \div 2) .. n ELSE {n}
    IN  {[ok |-> TRUE, h1 |-> h, G |-> 1 .. n] : h \in H}
        \cup {ch \in [ok : {FALSE}, h1 : {0}, G : {{}}] : FaultOK}
        \cup {ch \in [ok : {TRUE}, h1 : H, G : (SUBSET (1 .. n)) \ {1 .. n}] :
                 FaultOK}

(* sgh_do_deferred_mrq, blocking paths: result, blocks added back and    *)
(* the queued-block counters afterwards                                  *)
FlushBlocking(r, ch) ==
    LET n == Len(r.def_arr)
        p == ProcessMrqResponse(r.def_arr, n, ch.G)
    IN  IF ~ ch.ok
        THEN [res |-> RES_FAIL, in_back |-> 0, out_back |-> 0,
              in_q |-> r.in_mrq_q_blks, out_q |-> r.out_mrq_q_blks]
        ELSE IF p.n_good < n
        THEN [res |-> RES_FAIL,
              in_back |-> Resid(r.in_mrq_q_blks, p.good_inblks),
              out_back |-> Resid(r.out_mrq_q_blks, p.good_outblks),
              in_q |-> 0, out_q |-> 0]
        ELSE [res |-> 0, in_back |-> 0, out_back |-> 0, in_q |-> 0, out_q |-> 0]

(* sgh_do_deferred_mrq calling sgh_do_async_mrq for the one sg side      *)
FlushAsync(r, ch) ==
    LET n == Len(r.def_arr)
        p1 == ProcessMrqResponse(r.def_arr, ch.h1, ch.G)
        rest == n - ch.h1
        p2 == ProcessMrqResponse(r.def_arr, rest, ch.G)
    IN  IF ~ ch.ok
        THEN [res |-> RES_FAIL, in_back |-> 0, out_back |-> 0,
              in_q |-> 0, out_q |-> r.out_mrq_q_blks]
        ELSE IF p1.n_good < ch.h1
        THEN [res |-> RES_FAIL,
              in_back |-> Resid(r.in_mrq_q_blks, p1.good_inblks),
              out_back |-> Resid(r.out_mrq_q_blks, p1.good_outblks),
              in_q |-> 0, out_q |-> r.out_mrq_q_blks]
        ELSE IF rest >= 1 /\ p2.n_good < rest
        THEN [res |-> RES_FAIL,
              in_back |-> Resid(r.in_mrq_q_blks, p2.good_inblks),
              out_back |-> Resid(r.out_mrq_q_blks, p2.good_outblks),
              in_q |-> 0, out_q |-> r.out_mrq_q_blks]
        ELSE [res |-> 0, in_back |-> 0, out_back |-> 0,
              in_q |-> 0, out_q |-> r.out_mrq_q_blks]

FlushResult(c, r, ch) ==
    IF AsyncPath(c) THEN FlushAsync(r, ch) ELSE FlushBlocking(r, ch)

(* sg_start_io: is SGV4_FLAG_DO_ON_OTHER set in the request?  Only     *)
(* with MRQ, both sides sg, and a command for rep->outfd               *)
DoOnOther(c, e) == Nmrqs(c) > 0 /\ both_sg(c) /\ e.op \in {"W", "PF"}

(* split_def_arr: the requests without the flag (pick = FALSE) or with *)
(* it (pick = TRUE), in the order of the array                         *)
RECURSIVE SplitDefArr(_, _, _, _)
SplitDefArr(c, arr, n, pick) ==
    IF n = 0 THEN <<>>
    ELSE IF DoOnOther(c, arr[n]) = pick
         THEN Append(SplitDefArr(c, arr, n - 1, pick), arr[n])
         ELSE SplitDefArr(c, arr, n - 1, pick)

(* sgh_do_deferred_mrq: the fd the transaction is sent to *)
MrqFd(c) == IF both_sg(c) \/ only_in_sg(c) THEN "in" ELSE "out"

(* the ioctls sgh_do_deferred_mrq makes for the array, each with its   *)
(* fd and its requests; res is the result of the transaction           *)
FlushIoctls(c, arr, res) ==
    LET fd_def_arr == SplitDefArr(c, arr, Len(arr), FALSE)
        o_fd_def_arr == SplitDefArr(c, arr, Len(arr), TRUE)
        first == IF fd_def_arr # <<>>
                 THEN <<[fd |-> MrqFd(c), reqs |-> fd_def_arr]>> ELSE <<>>
        second == IF o_fd_def_arr # <<>> /\ (fd_def_arr = <<>> \/ res = 0)
                  THEN <<[fd |-> "out", reqs |-> o_fd_def_arr]>> ELSE <<>>
    IN  IF AsyncPath(c) THEN first \o second
        ELSE <<[fd |-> MrqFd(c), reqs |-> arr]>>

(* entries of the array whose READ completed without error *)
GoodReads(arr, G) == {k \in G : k <= Len(arr) /\ arr[k].op = "R"}

(* the worker's buffer after the transaction: every deferred READ of the *)
(* worker was given the same buffer, the last good one leaves its data   *)
FlushFill(c, r, ch) ==
    LET gr == GoodReads(r.def_arr, ch.G)
        last == CHOOSE k \in gr : \A j \in gr : j <= k
    IN  IF ch.ok /\ gr # {} /\ ReadXfer(c)
        THEN [i \in DOMAIN r.buf |->
                 IF i < r.def_arr[last].nb THEN r.def_arr[last].lba + i
                 ELSE r.buf[i]]
        ELSE r.buf

(* the worker's record after the transaction *)
FlushRep(c, r, ch) ==
    LET n == Len(r.def_arr)
        f == FlushResult(c, r, ch)
        all == 1 .. n
    IN  [r EXCEPT !.def_arr = <<>>,
                  !.in_mrq_q_blks = f.in_q,
                  !.out_mrq_q_blks = f.out_q,
                  !.buf = FlushFill(c, r, ch),
                  !.rd_ok = IF ch.ok THEN @ + SumBlks(r.def_arr, n, ch.G, FALSE)
                            ELSE @,
                  !.fl = [n |-> r.fl.n + 1,
                          sub |-> IF ch.ok
                                  THEN SumBlks(r.def_arr, n, all, FALSE)
                                          + SumBlks(r.def_arr, n, all, TRUE)
                                  ELSE 0,
                          good |-> IF ch.ok
                                   THEN SumBlks(r.def_arr, n, ch.G, FALSE)
                                           + SumBlks(r.def_arr, n, ch.G, TRUE)
                                   ELSE 0,
                          in_back |-> f.in_back,
                          out_back |-> f.out_back,
                          ioctls |-> FlushIoctls(c, r.def_arr, f.res)]]

(* output LBAs of the primary WRITEs among the first n entries, in order *)
RECURSIVE WrLbas(_, _)
WrLbas(arr, n) ==
    IF n = 0 THEN <<>>
    ELSE IF arr[n].op = "W" THEN Append(WrLbas(arr, n - 1), arr[n].lba)
    ELSE WrLbas(arr, n - 1)

(* effect of a transaction of worker w, whose record before it is r, on  *)
(* the shared counters and on the logs of writes                         *)
FlushShared(w, r, ch) ==
    LET f == FlushResult(cfg, r, ch)
        n == Len(r.def_arr)
        lbas == IF ch.ok THEN WrLbas(r.def_arr, n) ELSE <<>>
        begun == {lbas[i] : i \in 1 .. Len(lbas)}
    IN  /\ in_rem_count' = in_rem_count + f.in_back
        /\ out_rem_count' = out_rem_count + f.out_back
        /\ owr' = owr \o lbas
        /\ wr_bad' = wr_bad \cup UNION {BadPairs(l) : l \in begun}
        /\ wr_done' = wr_done \cup
              {r.def_arr[k].lba : k \in {j \in ch.G : r.def_arr[j].op = "W"}}
        /\ faults' = IF ch.ok /\ ch.G = 1 .. n THEN faults ELSE faults + 1

(* sg_in_rd_cmd when READs are deferred: sg_start_io queues the READ and *)
(* sends the array when it holds nmrqs requests; sg_finish_io returns 0  *)
SgReadDefer(w) ==
    /\ pc[w] = "read"
    /\ cfg.in_type = FT_SG
    /\ Mrq(cfg, FALSE)
    /\ LET r == rep[w]
           id == PackId(cfg, r, FALSE, mono_pack_id)
           e == [op |-> "R", lba |-> CdbLba(cfg, r, FALSE),
                 nb |-> CdbBlks(cfg, r, FALSE)]
           r1 == [r EXCEPT !.pack_id = id,
                           !.rd_p_id = IF both_sg(cfg) THEN id ELSE @,
                           !.in_mrq_q_blks = @ + e.nb,
                           !.def_arr = Append(@, e)]
       IN  /\ mono_pack_id' = mono_pack_id + 1
           /\ cmds' = Append(cmds, [pid |-> id, op |-> "R", lba |-> e.lba,
                                    nb |-> e.nb, tid |-> w,
                                    fua |-> CdbFua(cfg, r, FALSE),
                                    sz |-> cfg.cdbsz])
           /\ in_mutex' = NoOwner
           /\ IF Full(cfg, r1)
              THEN \E ch \in FlushChoices(cfg, Len(r1.def_arr)) :
                     LET f == FlushResult(cfg, r1, ch) IN
                     /\ rep' = [rep EXCEPT ![w] =
                                   [FlushRep(cfg, r1, ch) EXCEPT !.res = f.res]]
                     /\ FlushShared(w, r1, ch)
                     /\ IF f.res = 0
                        THEN /\ pc' = [pc EXCEPT ![w] = "rd_credit"]
                             /\ UNCHANGED stops
                        ELSE /\ pc' = [pc EXCEPT ![w] = AfterRead(cfg)]
                             /\ StopBoth
              ELSE /\ rep' = [rep EXCEPT ![w] = [r1 EXCEPT !.res = 0]]
                   /\ pc' = [pc EXCEPT ![w] = "rd_credit"]
                   /\ UNCHANGED <<in_rem_count, out_rem_count, owr, wr_bad,
                                  wr_done, faults, stops>>
    /\ UNCHANGED <<cfg, shutting_down, sl, oreg, num_miscompare, spc, pos_index, out_count, out_blk, in_partial,
                   out_partial, exit_status, out_mutex, out2_mutex, mpc,
                   exit_code, files, taken, es_log>>

(* sg_out_wr_cmd when WRITEs are deferred *)
SgWrDefer(w) ==
    /\ pc[w] \in {"pf_start", "wr_start"}
    /\ Mrq(cfg, TRUE)
    /\ LET r == rep[w]
           id == PackId(cfg, r, TRUE, mono_pack_id)
           e == [op |-> IF r.prefetch THEN "PF" ELSE IF r.is_wr2 THEN "W2" ELSE "W",
                 lba |-> CdbLba(cfg, r, TRUE),
                 nb |-> IF r.dout_is_split THEN r.blks ELSE r.num_blks]
           r1 == [r EXCEPT !.pack_id = id,
                           !.out_mrq_q_blks = @ + e.nb,
                           !.def_arr = Append(@, e)]
           good == IF r.prefetch THEN "pf_done"
                   ELSE IF r.is_wr2 THEN "wr_fini" ELSE "wr_credit"
       IN  /\ mono_pack_id' = IF PackIdFetched(cfg, TRUE)
                              THEN mono_pack_id + 1 ELSE mono_pack_id
           /\ cmds' = Append(cmds, [pid |-> id, op |-> e.op, lba |-> e.lba,
                                    nb |-> CdbBlks(cfg, r, TRUE), tid |-> w,
                                    fua |-> CdbFua(cfg, r, TRUE),
                                    sz |-> cfg.cdbsz])
           /\ MutexpSet(r, NoOwner)
           /\ IF Full(cfg, r1)
              THEN \E ch \in FlushChoices(cfg, Len(r1.def_arr)) :
                     LET f == FlushResult(cfg, r1, ch) IN
                     /\ rep' = [rep EXCEPT ![w] =
                                   [FlushRep(cfg, r1, ch) EXCEPT !.res = f.res]]
                     /\ FlushShared(w, r1, ch)
                     /\ IF f.res = 0
                        THEN /\ pc' = [pc EXCEPT ![w] = good]
                             /\ UNCHANGED stops
                        ELSE /\ pc' = [pc EXCEPT ![w] = "wr_fini"]
                             /\ StopBoth
              ELSE /\ rep' = [rep EXCEPT ![w] = [r1 EXCEPT !.res = 0]]
                   /\ pc' = [pc EXCEPT ![w] = good]
                   /\ UNCHANGED <<in_rem_count, out_rem_count, owr, wr_bad,
                                  wr_done, faults, stops>>
    /\ UNCHANGED <<cfg, shutting_down, sl, oreg, num_miscompare, spc, pos_index, out_count, out_blk, in_partial,
                   out_partial, exit_status, in_mutex, mpc, exit_code, files,
                   taken, es_log>>

(* the array is sent when the worker leaves its loop at or beyond count, *)
(* or after a read of no blocks; the result is only reported             *)
TailFlush(w) ==
    /\ pc[w] \in {"tail_flush", "tail_flush0"}
    /\ \E ch \in FlushChoices(cfg, Len(rep[w].def_arr)) :
          /\ rep' = [rep EXCEPT ![w] =
                [FlushRep(cfg, rep[w], ch) EXCEPT
                    !.stop_after_write =
                        IF pc[w] = "tail_flush0" THEN TRUE ELSE @]]
          /\ FlushShared(w, rep[w], ch)
    /\ out_stop' = IF pc[w] = "tail_flush0" THEN TRUE ELSE out_stop
    /\ pc' = [pc EXCEPT ![w] = "exit_lock"]
    /\ UNCHANGED <<cfg, shutting_down, sl, oreg, num_miscompare, spc, pos_index, out_count, out_blk, in_partial,
                   out_partial, in_stop, exit_status, mono_pack_id, mutexes,
                   mpc, exit_code, files, cmds, taken, es_log>>

(* ------------------------------------------------------------------ *)
(* Specification: regular file to regular file                         *)
(* ------------------------------------------------------------------ *)
(* the same with iflag=same_fds: no lseek64 before a read *)
CfgSameFds == [CfgFile EXCEPT !.same_fds = TRUE]

(* the same with an IFILE that ends in the middle of the fourth block read *)
CfgShort == [CfgFile EXCEPT !.in_bytes = 4 * CfgFile.skip + 14]

(* the same with an IFILE that ends after the third block read, one     *)
(* block into the second segment                                        *)
CfgShortBlk == [CfgFile EXCEPT !.in_bytes = 4 * CfgFile.skip + 12]

FileConfigs ==
    {CfgFile, [CfgFile EXCEPT !.maxfaults = MaxFaults], CfgSameFds, CfgShort}

InitFile == \E c \in FileConfigs : InitWith(c)

NextFile ==
    \/ MainCreate \/ MainWait \/ MainStartRest \/ MainJoin
    \/ MainShutdown \/ MainExit
    \/ \E w \in Workers :
          \/ OpenFds(w)
          \/ Acquire(w) \/ LockIn(w) \/ NormalRead(w) \/ LockOut(w) \/ CvWait(w)
          \/ NormalWrite(w) \/ IterEnd(w) \/ ExitLock(w) \/ Fini(w)
    \/ SigLast

SpecFile == InitFile /\ [][NextFile]_vars

(* ------------------------------------------------------------------ *)
(* Specification: every kind of input and output                       *)
(* ------------------------------------------------------------------ *)
(* sg device to sg device, request sharing in place (the default) *)
CfgSg ==
    [CfgFile EXCEPT !.in_type = FT_SG, !.out_type = FT_SG, !.has_share = TRUE]

(* sg to sg with PRE-FETCH + VERIFY, a split v4 write and an sg OFILE2 *)
CfgSgFull ==
    [CfgSg EXCEPT !.prefetch = TRUE, !.verify = TRUE, !.ofsplit = 1,
                  !.out_v4 = TRUE, !.out2_sg = TRUE, !.count = MaxCount]

(* sg to sg, noshare, address check of the data read *)
CfgSgChk ==
    [CfgSg EXCEPT !.has_share = FALSE, !.chkaddr = TRUE, !.in_coe = TRUE,
                  !.count = MaxCount, !.maxfaults = MaxFaults]

(* regular file to sg device and sg device to regular file *)
CfgFileSg == [CfgFile EXCEPT !.out_type = FT_SG, !.maxfaults = MaxFaults]
CfgSgFile == [CfgFile EXCEPT !.in_type = FT_SG, !.out_coe = TRUE,
                             !.maxfaults = MaxFaults]

(* regular file to sg device, PRE-FETCH before each WRITE *)
CfgFileSgPf == [CfgFile EXCEPT !.out_type = FT_SG, !.prefetch = TRUE,
                               !.count = MaxCount]

(* regular file to sg device with oflag=fua,v4: count within one        *)
(* transfer of the default size, and count over several transfers      *)
CfgFua ==
    [CfgFile EXCEPT !.out_type = FT_SG, !.out_v4 = TRUE, !.out_fua = TRUE,
                    !.bpt = DEF_BLOCKS_PER_TRANSFER, !.count = 4,
                    !.skip = 0, !.seek = 0]
CfgFuaSegs ==
    [CfgFile EXCEPT !.out_type = FT_SG, !.out_v4 = TRUE, !.out_fua = TRUE]

(* regular file to sg device, split write through the v3 interface *)
CfgFileSgSplit == [CfgFile EXCEPT !.out_type = FT_SG, !.ofsplit = 1]

(* sg device to the null sink, READs sent two at a time (mrq=2) *)
CfgSgNullMrq ==
    [CfgFile EXCEPT !.in_type = FT_SG, !.out_type = FT_DEV_NULL,
                    !.in_v4 = TRUE, !.nmrqs = 2, !.maxfaults = MaxFaults]

(* regular file to sg device, mrq=1 with oflag=mrq_immed *)
CfgFileSgMrqAsync ==
    [CfgFile EXCEPT !.out_type = FT_SG, !.out_v4 = TRUE, !.nmrqs = 1,
                    !.mrq_async = TRUE, !.maxfaults = MaxFaults]

(* regular file to sg device, WRITEs sent two at a time (mrq=2) *)
CfgFileSgMrq ==
    [CfgFile EXCEPT !.out_type = FT_SG, !.out_v4 = TRUE, !.nmrqs = 2,
                    !.maxfaults = MaxFaults]

(* a regular file that ends inside the second segment, to an sg device *)
(* with mrq=2                                                           *)
CfgShortSgMrq ==
    [CfgShort EXCEPT !.out_type = FT_SG, !.out_v4 = TRUE, !.nmrqs = 2]

(* sg device to sg device, sharing, READ and WRITE of a segment sent     *)
(* together (mrq=2)                                                      *)
CfgSgMrq ==
    [CfgSg EXCEPT !.in_v4 = TRUE, !.out_v4 = TRUE, !.nmrqs = 2,
                  !.maxfaults = MaxFaults]

(* iflag=random to a regular file; regular file to the null sink *)
CfgRandom ==
    [CfgFile EXCEPT !.in_type = FT_RANDOM_0_FF, !.in_random = TRUE]
CfgNull == [CfgFile EXCEPT !.out_type = FT_DEV_NULL]

(* count=0, regular files and sg devices *)
CfgNone == [CfgFile EXCEPT !.count = 0]
CfgSgNone ==
    [CfgFile EXCEPT !.in_type = FT_SG, !.out_type = FT_SG,
                    !.has_share = TRUE, !.count = 0]

(* if=/dev/zero of=/dev/null count=8 with the default bpt *)
CfgZeroNull ==
    [CfgFile EXCEPT !.in_type = FT_DEV_NULL, !.out_type = FT_DEV_NULL,
                    !.bpt = DEF_BLOCKS_PER_TRANSFER, !.count = 8,
                    !.skip = 0, !.seek = 0]

(* iflag=00,ff (addr_as_data) to a regular file, with oflag=chkaddr *)
CfgAddr ==
    [CfgFile EXCEPT !.in_type = FT_RANDOM_0_FF, !.in_zero = TRUE,
                    !.in_ff = TRUE, !.chkaddr = TRUE]

(* sg device to regular file with iflag=coe *)
CfgSgFileCoe ==
    [CfgFile EXCEPT !.in_type = FT_SG, !.in_coe = TRUE,
                    !.maxfaults = MaxFaults]

(* sg device to sg device, sharing, with mrq=1 and with mrq=1 osp=1 *)
CfgSgMrqOdd == [CfgSgMrq EXCEPT !.nmrqs = 1, !.maxfaults = 0]
CfgSgMrqOsp == [CfgSgMrq EXCEPT !.nmrqs = 1, !.ofsplit = 1, !.maxfaults = 0]

(* regular file to sg device, VERIFY instead of WRITE, oflag=coe, each *)
(* VERIFY split in two (osp=1)                                         *)
CfgFileSgVerify ==
    [CfgFile EXCEPT !.out_type = FT_SG, !.verify = TRUE, !.out_coe = TRUE,
                    !.ofsplit = 1, !.maxfaults = MaxFaults]

(* sg to sg with request sharing and an sg OFILE2 *)
CfgSgOut2 ==
    [CfgSg EXCEPT !.out2_sg = TRUE, !.count = 3, !.maxfaults = MaxFaults]

(* the same with READ and WRITE of a segment sent together (mrq=2) *)
CfgSgOut2Mrq ==
    [CfgSgOut2 EXCEPT !.in_v4 = TRUE, !.out_v4 = TRUE, !.nmrqs = 2,
                      !.maxfaults = 0]

(* sg to sg with sharing, an sg OFILE2 and a regular OFREG *)
CfgSgOut2Reg ==
    [CfgSgOut2 EXCEPT !.outreg = TRUE, !.count = MaxCount, !.maxfaults = 0]

(* regular file to sg device with a regular OFREG *)
CfgFileSgReg ==
    [CfgFileSg EXCEPT !.outreg = TRUE]

(* sg to sg, sharing, mrq=2 with the non-blocking flag (mrq_immed) *)
CfgSgMrqAsync ==
    [CfgSgMrq EXCEPT !.mrq_async = TRUE, !.maxfaults = 0]

Configs ==
    {CfgFile, [CfgFile EXCEPT !.maxfaults = MaxFaults],
     CfgSameFds, CfgShort, CfgShortBlk,
     CfgSg, [CfgSg EXCEPT !.maxfaults = MaxFaults, !.count = MaxCount],
     CfgSgFull, CfgSgChk, CfgFileSg, CfgFileSgPf, CfgFileSgSplit, CfgSgFile,
     CfgRandom, CfgNull, CfgNone, CfgSgNone, CfgZeroNull, CfgAddr, CfgFua, CfgFuaSegs, CfgSgNullMrq,
     CfgFileSgMrq, CfgShortSgMrq, CfgSgMrqOdd, CfgSgMrqOsp, CfgSgFileCoe,
     CfgFileSgVerify, CfgSgOut2, CfgSgOut2Mrq, CfgSgOut2Reg, CfgSgMrqAsync,
     CfgFileSgReg,
     CfgFileSgMrqAsync, CfgSgMrq}

Init == \E c \in Configs : InitWith(c)

WorkerStep(w) ==
    \/ OpenFds(w)
    \/ Acquire(w) \/ LockIn(w) \/ NormalRead(w) \/ ChkAddr(w)
    \/ SgReadStart(w) \/ SgReadFinish(w) \/ SgReadRelock(w) \/ SgReadCredit(w)
    \/ SgReadDefer(w) \/ SgWrDefer(w) \/ TailFlush(w)
    \/ EsCheck(w) \/ EsSet(w)
    \/ LockOut(w) \/ CvWait(w) \/ NullWrite(w) \/ NormalWrite(w)
    \/ SgWrBegin(w) \/ SgWrStart(w) \/ SgPfFinish(w) \/ SgPfRelock(w)
    \/ SgWrFinish(w) \/ SgWrRelock(w) \/ SgWrCredit(w) \/ SgWrFini(w)
    \/ LockOut2(w) \/ SgWrSwapShare(w)
    \/ IterEnd(w) \/ ExitLock(w) \/ Fini(w)

Next ==
    \/ MainCreate \/ MainWait \/ MainStartRest \/ MainJoin
    \/ MainShutdown \/ MainExit
    \/ \E w \in Workers : WorkerStep(w)
    \/ SigLast

Spec == Init /\ [][Next]_vars

(* ------------------------------------------------------------------ *)
(* Properties                                                          *)
(* ------------------------------------------------------------------ *)
(* No two primary writes that both completed successfully overlapped   *)
(* out of order: no pair L1 < L2 where L2 was begun before L1 was done  *)
(* and both are done.                                                   *)
NoOverlap == \A p \in wr_bad : ~ (p[1] \in wr_done /\ p[2] \in wr_done)

(* the primary output is written with write(2) by normal_out_wr *)
OutIsFile(c) == c.out_type = FT_OTHER

(* C1 (as amended): when the primary output is a regular file or block  *)
(* device written by normal_out_wr and the input is not iflag=random,   *)
(* then for any two successfully completed primary writes at L1 < L2    *)
(* the write at L1 completed before the write at L2 was begun, in every *)
(* interleaving.                                                        *)
C1_FileWritesSerialised ==
    (OutIsFile(cfg) /\ ~ cfg.in_random) => NoOverlap

(* C1 witness: two workers, the later segment's worker waited for its   *)
(* turn, and at least two primary writes to a regular file completed.   *)
C1_Witness ==
    /\ OutIsFile(cfg) /\ ~ cfg.in_random
    /\ Cardinality(wr_done) >= 2
    /\ Len(owr) >= 2
    /\ \E w \in Workers : pc[w] = "cv_wait"

(* C1 as stated: whenever the primary output is not the null sink       *)
(* (regular file, block device or sg device), L1 completed before L2    *)
(* was begun.                                                           *)
C1_AsStated == (cfg.out_type # FT_DEV_NULL) => NoOverlap

(* output LBAs of the segments for which a primary write was begun *)
SegIssued ==
    {l \in LBAs : /\ l >= cfg.seek
                  /\ (l - cfg.seek) % cfg.bpt = 0
                  /\ \E i \in 1 .. Len(owr) : owr[i] = l}

(* position in owr of the first primary write begun at LBA l *)
FirstIssue(l) ==
    CHOOSE i \in 1 .. Len(owr) : owr[i] = l /\ \A j \in 1 .. (i - 1) : owr[j] # l

(* segments' primary writes were first begun in ascending LBA order *)
IssueAscending ==
    \A l1, l2 \in SegIssued : l1 < l2 => FirstIssue(l1) < FirstIssue(l2)

(* C2 (as amended): a worker waits for its turn only when the input is  *)
(* not iflag=random, not (both sides sg and no ofreg fd), and the output *)
(* is not the null sink (or sharing with an ofreg fd); OFILE2 plays no   *)
(* part.  Under those conditions, with an output that is not the null    *)
(* sink, no PRE-FETCH and writes not deferred to an MRQ transaction, the *)
(* first write of each segment is begun in strictly ascending LBA order. *)
C2_GatedIssueAscending ==
    /\ (\E w \in Workers : pc[w] \in {"cv_enter", "cv_wait"}) => GateApplies(cfg)
    /\ (GateApplies(cfg) /\ cfg.out_type # FT_DEV_NULL /\ ~ cfg.prefetch
            /\ ~ Mrq(cfg, TRUE))
           => IssueAscending

(* C2 witness: an sg output behind the gate, a worker waited for its    *)
(* turn and the writes of two segments have been begun.                 *)
C2_Witness ==
    /\ GateApplies(cfg) /\ cfg.out_type = FT_SG /\ ~ cfg.prefetch
    /\ Cardinality(SegIssued) >= 2
    /\ \E w \in Workers : pc[w] = "cv_wait"

(* C2 as stated: unless both sides are sg with no OFILE2 and no ofreg   *)
(* fd, writes to a primary output that is not the null sink are begun   *)
(* in ascending LBA order.                                              *)
C2_AsStated ==
    (cfg.out_type # FT_DEV_NULL
        /\ ~ (both_sg(cfg) /\ ~ cfg.out2_sg /\ ~ cfg.outreg))
       => IssueAscending

(* the copy is over and main has returned *)
Exited == mpc = "exit"

(* every output block seek+i holds the data of input block skip+i and   *)
(* the output blocks below seek were left alone                         *)
CopiedRight(c) ==
    /\ \A i \in 0 .. (c.count - 1) : ofile[c.seek + i] = c.skip + i
    /\ \A a \in LBAs : a < c.seek => ofile[a] = UNTOUCHED

(* C3: after a run that ends without error, with regular-file input and *)
(* output, every output block seek+i (0 <= i < count) holds the data of *)
(* input block skip+i and the output below seek is untouched, for every *)
(* interleaving of the workers.                                         *)
C3_AsStated ==
    (Exited /\ exit_code = 0 /\ faults = 0
        /\ cfg.in_type = FT_OTHER /\ OutIsFile(cfg))
       => CopiedRight(cfg)

(* C3 witness: a run with regular files ended with exit code 0 after    *)
(* both workers wrote to the output.                                    *)
C3_Witness ==
    /\ Exited /\ exit_code = 0 /\ faults = 0
    /\ cfg.in_type = FT_OTHER /\ OutIsFile(cfg)
    /\ Len(owr) >= 3
    /\ \A w \in Workers : rep[w].num_blks > 0

(* the block range [idx, idx + blocks) of the segment obtained at idx *)
SegRange(c, idx) ==
    {b \in 0 .. (c.count - 1) : idx <= b /\ b < idx + SegBlocks(c, idx)}

(* labels at which a worker owns a segment and does its I/O *)
IoLabels ==
    {"read", "rd_finish", "rd_relock", "rd_credit", "chkaddr", "lock_out",
     "cv_enter", "cv_wait", "write", "pf_start", "pf_finish", "pf_relock",
     "pf_done", "wr_start", "wr_finish", "wr_relock", "wr_credit", "wr_fini",
     "lock_out2", "swap_to2", "swap_back", "iter_end", "es_check", "es_set"}

(* C4: the values obtained from the position index are pairwise at      *)
(* least bpt apart (disjoint segments); a worker doing I/O has          *)
(* my_index < count, blocks = min(bpt, count - my_index) <= bpt,        *)
(* iblk = skip + my_index and oblk = seek + my_index, so a worker that  *)
(* obtained my_index >= count does no I/O; and at the end of a run in   *)
(* which no stop occurred the segments obtained cover [0, count)        *)
(* exactly once.                                                        *)
C4_Segments ==
    /\ \A i, j \in 1 .. Len(taken) :
          i < j => taken[i] + cfg.bpt <= taken[j]
    /\ \A w \in Workers :
          pc[w] \in IoLabels =>
             /\ rep[w].my_index < cfg.count
             /\ rep[w].blocks = Min(cfg.bpt, cfg.count - rep[w].my_index)
             /\ rep[w].blocks <= cfg.bpt
             /\ rep[w].iblk = cfg.skip + rep[w].my_index
             /\ rep[w].oblk = cfg.seek + rep[w].my_index
             /\ \E i \in 1 .. Len(taken) : taken[i] = rep[w].my_index
    /\ \A w \in Workers :
          (pc[w] = "lock_in" /\ rep[w].my_index >= cfg.count) =>
             ~ ENABLED (LockIn(w) /\ pc'[w] = "read")
    /\ (Exited /\ ~ out_stop) =>
          \A b \in 0 .. (cfg.count - 1) :
             Cardinality({i \in 1 .. Len(taken) : b \in SegRange(cfg, taken[i])}) = 1

(* C4 witness: a run ended with no stop; three segments were obtained   *)
(* and written, the last one short, and every worker then obtained an   *)
(* index at or beyond count and left.                                   *)
C4_Witness ==
    /\ Exited /\ ~ out_stop
    /\ Len(taken) >= 4
    /\ Len(owr) >= 3
    /\ \A w \in Workers : rep[w].my_index >= cfg.count /\ rep[w].blocks > 0
    /\ \E w \in Workers : rep[w].blocks < cfg.bpt

(* C5: when a run finishes with no stop condition (no I/O error, no    *)
(* short read, out_stop never set), in_rem_count, out_rem_count and     *)
(* out_count are all 0 at exit and in_partial = out_partial.            *)
C5_Conservation ==
    (Exited /\ ~ out_stop /\ faults = 0) =>
        /\ in_rem_count = 0
        /\ out_rem_count = 0
        /\ out_count = 0
        /\ in_partial = out_partial

(* C5 witness: a run over an sg output with a split write ended with   *)
(* no stop and every block credited.                                    *)
C5_Witness ==
    /\ Exited /\ ~ out_stop /\ faults = 0
    /\ cfg.out_type = FT_SG /\ cfg.ofsplit > 0
    /\ Len(owr) >= 5
    /\ out_rem_count = 0

(* the mutexes worker w holds *)
Held(w) ==
    {m \in {"in", "out", "out2"} :
        \/ m = "in" /\ in_mutex = w
        \/ m = "out" /\ out_mutex = w
        \/ m = "out2" /\ out2_mutex = w}

(* the mutex a worker holds at a label of read_write_thread and of the  *)
(* functions it calls; {} at every label where it is about to lock one, *)
(* is waiting for a completion, or has returned from a function that    *)
(* was entered with a mutex held                                        *)
HeldAt(w) ==
    IF pc[w] = "read" THEN {"in"}
    ELSE IF pc[w] \in {"cv_enter", "write"} THEN {"out"}
    ELSE IF pc[w] \in {"pf_start", "wr_start"}
         THEN IF rep[w].is_wr2 THEN {"out2"} ELSE {"out"}
    ELSE IF pc[w] = "swap_to2" THEN {"out2"}
    ELSE {}

(* C6: a worker never holds more than one of in_mutex, out_mutex and    *)
(* out2_mutex; wherever it is about to lock a mutex it holds none; and  *)
(* sg_in_rd_cmd, sg_out_wr_cmd and the normal read and write paths have *)
(* released the mutex they were entered with on every return path.      *)
C6_OneMutex ==
    \A w \in Workers : Cardinality(Held(w)) <= 1 /\ Held(w) = HeldAt(w)

(* C6 witness: one worker is inside sg_out_wr_cmd for OFILE2 holding    *)
(* out2_mutex while another holds out_mutex, and a third mutex, in_mutex,*)
(* is free or held by someone else.                                     *)
C6_Witness ==
    \E w1, w2 \in Workers :
        /\ w1 # w2
        /\ out2_mutex = w1 /\ pc[w1] = "wr_start" /\ rep[w1].is_wr2
        /\ out_mutex = w2

(* worker w commits to the read of a newly obtained segment *)
BeginsRead(w) == pc[w] = "lock_in" /\ pc'[w] = "read"

(* worker w passes the stop test and goes on to write its segment *)
BeginsWrite(w) == pc[w] = "lock_out" /\ pc'[w] = "write"

(* C7: once in_stop or out_stop has been set, a worker does not begin a *)
(* new read, and once out_stop has been set it does not begin a new     *)
(* write: the check is made before the next read and before the next    *)
(* write.                                                               *)
C7_AsStated ==
    [][\A w \in Workers :
          /\ (in_stop \/ out_stop) => ~ BeginsRead(w)
          /\ out_stop => ~ BeginsWrite(w)]_vars

(* C7 witness: the stop flags were set by a failed command while the    *)
(* other worker had obtained a segment it has not yet read.             *)
C7_Witness ==
    /\ in_stop /\ out_stop /\ faults > 0
    /\ \E w \in Workers :
          pc[w] = "lock_in" /\ rep[w].my_index < cfg.count

(* pairs of positions in the log of submitted commands *)
CmdPairs == {p \in (1 .. Len(cmds)) \X (1 .. Len(cmds)) : p[1] < p[2]}

(* the segment a write-side command belongs to *)
WrSeg(cmd) == (cmd.lba - cfg.seek) \div cfg.bpt

(* C8 (as amended): when the two sides are not both sg devices, no two  *)
(* submitted commands carry the same pack-id (retries and PRE-FETCH     *)
(* included).  When both sides are sg devices, two commands carry the   *)
(* same pack-id only if both are write-side commands (WRITE or VERIFY,  *)
(* its retry, PRE-FETCH, either half of a split write, the write to     *)
(* OFILE2) issued by the same worker for the same segment.              *)
C8_PackIdsUniquePerSegment ==
    \A p \in CmdPairs :
        LET a == cmds[p[1]]
            b == cmds[p[2]]
        IN  a.pid = b.pid =>
               /\ both_sg(cfg)
               /\ a.op # "R" /\ b.op # "R"
               /\ a.tid = b.tid
               /\ WrSeg(a) = WrSeg(b)

(* C8 witness: with only the output an sg device, a WRITE was retried   *)
(* and the retry was submitted with a pack-id of its own.               *)
C8_Witness ==
    /\ ~ both_sg(cfg)
    /\ \E p \in CmdPairs :
          /\ cmds[p[1]].op = "W" /\ cmds[p[2]].op = "W"
          /\ cmds[p[1]].lba = cmds[p[2]].lba
          /\ cmds[p[1]].pid # cmds[p[2]].pid

(* C8 as stated: no two submitted commands carry the same pack-id.      *)
C8_AsStated == \A p \in CmdPairs : cmds[p[1]].pid # cmds[p[2]].pid

(* C9: when both sides are sg devices (distinct fds), every READ is     *)
(* submitted with an even pack-id and the WRITE of a segment is          *)
(* submitted with the pack-id of that segment's READ, by the same        *)
(* worker, plus one.                                                     *)
C9_PairedIds ==
    both_sg(cfg) =>
        \A j \in 1 .. Len(cmds) :
            /\ cmds[j].op = "R" => cmds[j].pid % 2 = 0 /\ cmds[j].pid > 0
            /\ cmds[j].op = "W" =>
                  \E i \in 1 .. (j - 1) :
                      /\ cmds[i].op = "R"
                      /\ cmds[i].tid = cmds[j].tid
                      /\ cmds[i].lba - cfg.skip = WrSeg(cmds[j]) * cfg.bpt
                      /\ cmds[j].pid = cmds[i].pid + 1

(* C9 witness: both sides sg, both workers have submitted a WRITE and   *)
(* the WRITE of a later segment carries an id beyond the first pair.    *)
C9_Witness ==
    /\ both_sg(cfg)
    /\ \E i, j \in 1 .. Len(cmds) :
          /\ cmds[i].op = "W" /\ cmds[j].op = "W"
          /\ cmds[i].tid # cmds[j].tid
          /\ cmds[j].pid > 3

(* positions in es_log at which a sense category was recorded *)
CatRecorded == {i \in 1 .. Len(es_log) : es_log[i] > 0}

(* the first sense category a worker recorded *)
FirstCat ==
    es_log[CHOOSE i \in CatRecorded : \A j \in CatRecorded : i <= j]

(* C10: the exit code is 0 after a clean copy; otherwise it is the      *)
(* first non-zero sense category recorded by a worker; and it is        *)
(* SG_LIB_CAT_OTHER when out_count is non-zero at exit and no category  *)
(* was recorded.                                                        *)
C10_AsStated ==
    Exited =>
        /\ (faults = 0 /\ ~ out_stop) => exit_code = 0
        /\ CatRecorded # {} => exit_code = FirstCat
        /\ (CatRecorded = {} /\ out_count # 0) => exit_code = SG_LIB_CAT_OTHER

(* C10 witness: a worker recorded a sense category, a later address     *)
(* check failed, and the run has ended.                                 *)
C10_Witness ==
    /\ Exited
    /\ Len(es_log) >= 2
    /\ es_log[1] > 0 /\ es_log[1] # SG_LIB_CAT_MISCOMPARE
    /\ es_log[Len(es_log)] = SG_LIB_CAT_MISCOMPARE

(* C11: exit_status is written at most once in a run: once it holds a  *)
(* sense category no later error of any worker (an error found by two  *)
(* workers at the same time, or an address-check failure) changes it,   *)
(* so it holds the first category that was recorded.                    *)
C11_AsStated ==
    /\ Cardinality(CatRecorded) <= 1
    /\ CatRecorded # {} => exit_status = FirstCat

(* C11 witness: exit_status held a sense category when a later store    *)
(* replaced it with another one.                                        *)
C11_Witness ==
    /\ Cardinality(CatRecorded) >= 2
    /\ exit_status # FirstCat
    /\ exit_status > 0

WrSegStart(cmd) == cfg.seek + WrSeg(cmd) * cfg.bpt
WrSegBlocks(cmd) == SegBlocks(cfg, WrSeg(cmd) * cfg.bpt)

(* the primary WRITE commands submitted so far, as <<lba, nb>> pairs, for *)
(* the segment that starts at output LBA s                                *)
SegWrites(s) ==
    {<<cmds[i].lba, cmds[i].nb>> :
        i \in {j \in 1 .. Len(cmds) : cmds[j].op = "W" /\ WrSegStart(cmds[j]) = s}}

(* C13: with ofsplit = k > 0 and no retry, a segment of c > k blocks at  *)
(* output LBA oblk is written by exactly two primary commands, which      *)
(* address [oblk, oblk+k) and [oblk+k, oblk+c), with the v3 as with the   *)
(* v4 interface; a segment of c <= k blocks is written by one command.    *)
C13_AsStated ==
    (cfg.ofsplit > 0 /\ faults = 0) =>
        /\ \A j \in 1 .. Len(cmds) :
              cmds[j].op = "W" =>
                 LET s == WrSegStart(cmds[j])
                     c == WrSegBlocks(cmds[j])
                     k == cfg.ofsplit
                 IN  IF c > k
                     THEN <<cmds[j].lba, cmds[j].nb>> \in {<<s, k>>, <<s + k, c - k>>}
                     ELSE <<cmds[j].lba, cmds[j].nb>> = <<s, c>>
        /\ \A p \in CmdPairs :
              (cmds[p[1]].op = "W" /\ cmds[p[2]].op = "W") =>
                  cmds[p[1]].lba # cmds[p[2]].lba
        /\ \A w \in Workers :
              (pc[w] \in {"lock_out2", "iter_end"} /\ cfg.out_type = FT_SG) =>
                 LET c == rep[w].num_blks
                     k == cfg.ofsplit
                     s == rep[w].oblk
                 IN  SegWrites(s) = IF c > k THEN {<<s, k>>, <<s + k, c - k>>}
                                     ELSE {<<s, c>>}

(* C13 witness: through the v3 interface, both commands of a split       *)
(* segment were submitted and each addresses the whole segment.          *)
C13_Witness ==
    /\ cfg.ofsplit > 0 /\ ~ cfg.out_v4 /\ faults = 0
    /\ \E p \in CmdPairs :
          /\ cmds[p[1]].op = "W" /\ cmds[p[2]].op = "W"
          /\ cmds[p[1]].lba = cmds[p[2]].lba
          /\ cmds[p[1]].nb = cmds[p[2]].nb
          /\ cmds[p[1]].nb > cfg.ofsplit

(* C14: for every MRQ transaction, the blocks carried by the requests   *)
(* submitted in it equal the blocks completed good plus the blocks      *)
(* added back to in_rem_count plus the blocks added back to             *)
(* out_rem_count, on the blocking and on the full non-blocking path.    *)
C14_AsStated ==
    \A w \in Workers :
        rep[w].fl.sub = rep[w].fl.good + rep[w].fl.in_back + rep[w].fl.out_back

(* C14 witness: on the full non-blocking path a worker's second         *)
(* transaction failed and more blocks were added back to out_rem_count  *)
(* than the transaction carried.                                        *)
C14_Witness ==
    /\ AsyncPath(cfg)
    /\ \E w \in Workers :
          /\ rep[w].fl.n >= 2
          /\ rep[w].fl.sub > 0
          /\ rep[w].fl.out_back > rep[w].fl.sub

(* blocks of input whose reads have completed successfully, all workers *)
RECURSIVE RdOkUpTo(_)
RdOkUpTo(n) == IF n = 0 THEN 0 ELSE RdOkUpTo(n - 1) + rep[n - 1].rd_ok

(* blocks of READs that have completed on an sg device and that their   *)
(* worker is about to take off in_rem_count                              *)
RECURSIVE RdPendingUpTo(_)
RdPendingUpTo(n) ==
    IF n = 0 THEN 0
    ELSE RdPendingUpTo(n - 1)
            + (IF pc[n - 1] = "rd_credit" /\ ~ Mrq(cfg, FALSE)
               THEN rep[n - 1].num_blks ELSE 0)

(* C15: in_rem_count is count minus the blocks whose reads have         *)
(* completed successfully (a completion the worker is about to account  *)
(* for aside), so 0 <= in_rem_count <= count, as long as the process    *)
(* runs; with MRQ as well, where reads are deferred, and after a         *)
(* transaction that failed.                                              *)
C15_AsStated ==
    mpc # "aborted" =>
        /\ in_rem_count =
              cfg.count - RdOkUpTo(NumThreads) + RdPendingUpTo(NumThreads)
        /\ 0 <= in_rem_count
        /\ in_rem_count <= cfg.count

(* C15 witness: with MRQ a transaction of READs failed and the blocks   *)
(* added back took in_rem_count above count.                            *)
C15_Witness ==
    /\ Mrq(cfg, FALSE)
    /\ in_rem_count > cfg.count
    /\ \E w \in Workers : rep[w].fl.n >= 1 /\ rep[w].fl.in_back > 0

(* ------------------------------------------------------------------ *)
(* C16: the address-as-data source                                     *)
(* ------------------------------------------------------------------ *)
(* the input is the synthetic source selected by iflag=00,ff *)
AddrAsData(c) ==
    c.in_type = FT_RANDOM_0_FF /\ c.in_zero /\ c.in_ff /\ c.bs >= 4

(* C16: with the iflag=00,ff source (block size at least 4) every block *)
(* of a segment that was read holds its own logical block address, the  *)
(* address check never records a miscompare, every block written to a   *)
(* regular output file at seek+i holds address skip+i, and a run that   *)
(* ends has written all count blocks that way.                          *)
C16_AddrAsData ==
    AddrAsData(cfg) =>
       /\ \A w \in Workers :
             pc[w] \in {"chkaddr", "lock_out", "cv_wait", "write"} =>
                \A k \in 0 .. (rep[w].blocks - 1) :
                    rep[w].buf[k] = rep[w].iblk + k
       /\ \A n \in DOMAIN es_log : es_log[n] # SG_LIB_CAT_MISCOMPARE
       /\ \A a \in LBAs :
             ofile[a] # UNTOUCHED =>
                /\ a >= cfg.seek /\ a < cfg.seek + cfg.count
                /\ ofile[a] = cfg.skip + (a - cfg.seek)
       /\ (Exited /\ OutIsFile(cfg) /\ faults = 0) => CopiedRight(cfg)

(* C16 witness: a run from the iflag=00,ff source with chkaddr ended    *)
(* after both workers passed the address check and wrote, and the       *)
(* output file holds the addresses.                                     *)
C16_Witness ==
    /\ AddrAsData(cfg) /\ cfg.chkaddr /\ OutIsFile(cfg)
    /\ Exited /\ exit_code = 0
    /\ \A w \in Workers : rep[w].rd_ok > 0
    /\ CopiedRight(cfg)

(* ------------------------------------------------------------------ *)
(* C17: WRITE commands of a run with oflag=fua and only the output sg  *)
(* ------------------------------------------------------------------ *)
(* positions in cmds of the WRITEs to the primary output *)
WriteCmds == {n \in DOMAIN cmds : cmds[n].op = "W"}

(* number of segments of a copy of count blocks *)
NumSegs(c) == (c.count + c.bpt - 1) \div c.bpt

(* only the output is sg, one output device, commands sent one by one *)
PlainOutSg(c) == only_out_sg(c) /\ ~ c.out2_sg /\ ~ Mrq(c, TRUE)

ClaimsOutput(w) == pc[w] = "lock_out" /\ pc'[w] = "write"

(* worker w completes the write half of a segment on the null sink *)
NullSinkStep(w) ==
    cfg.out_type = FT_DEV_NULL /\ pc[w] = "write" /\ pc'[w] = AfterWrite(cfg)

(* nothing was ever written to the output *)
NothingWritten ==
    /\ owr = <<>>
    /\ \A a \in LBAs : ofile[a] = UNTOUCHED
    /\ \A n \in DOMAIN cmds : cmds[n].op = "R"

(* C18: with a null-sink output nothing is written for any segment; a   *)
(* segment that passes the stop test reduces out_count by its block     *)
(* count and the skipped write reduces out_rem_count by it; a run       *)
(* without errors ends with out_count 0, count+0 records in, 0+0        *)
(* records out and exit code 0.                                         *)
C18_NullSink ==
    /\ [](cfg.out_type = FT_DEV_NULL =>
            /\ NothingWritten
            /\ (Exited /\ faults = 0) =>
                  /\ out_count = 0 /\ exit_code = 0
                  /\ PrintStatsIn(cfg, in_rem_count, in_partial)
                        = <<cfg.count, 0>>
                  /\ PrintStatsOut(cfg, out_rem_count, out_partial)
                        = <<0, 0>>)
    /\ [][\A w \in Workers :
            /\ (cfg.out_type = FT_DEV_NULL /\ ClaimsOutput(w)) =>
                  out_count' = out_count - rep[w].blocks
            /\ NullSinkStep(w) =>
                  /\ out_rem_count' = out_rem_count - rep[w].blocks
                  /\ out_count' = out_count]_vars

(* C18 witness: the run of the example (/dev/zero to /dev/null, count   *)
(* 8) ended with 8+0 records in, 0+0 records out and exit code 0.       *)
C18_Witness ==
    /\ cfg = CfgZeroNull /\ Exited /\ exit_code = 0
    /\ out_count = 0 /\ out_rem_count = 0
    /\ PrintStatsIn(cfg, in_rem_count, in_partial) = <<8, 0>>
    /\ PrintStatsOut(cfg, out_rem_count, out_partial) = <<0, 0>>
    /\ NothingWritten

(* ------------------------------------------------------------------ *)
(* C19: count = 0                                                      *)
(* ------------------------------------------------------------------ *)
(* C19: with count = 0 no worker is ever started, no command is sent,   *)
(* nothing is read or written, main goes from its start straight to its *)
(* end and the exit code is 0.                                          *)
C19_CountZero ==
    cfg.count = 0 =>
       /\ \A w \in Workers : pc[w] = "idle" /\ rep[w].rd_ok = 0
       /\ mpc \in {"start", "joined", "exit"}
       /\ cmds = <<>> /\ owr = <<>> /\ taken = <<>>
       /\ \A a \in LBAs : ofile[a] = UNTOUCHED
       /\ in_rem_count = 0 /\ out_rem_count = 0 /\ out_count = 0
       /\ pos_index = 0 /\ exit_status = 0
       /\ Exited => exit_code = 0

(* C19 witness: a run with count = 0 and sg devices on both sides ended *)
(* with exit code 0 and every worker still not started.                 *)
C19_Witness ==
    /\ cfg = CfgSgNone /\ Exited /\ exit_code = 0
    /\ \A w \in Workers : pc[w] = "idle"

(* ------------------------------------------------------------------ *)
(* Specification: runs without I/O errors, with fair scheduling        *)
(* ------------------------------------------------------------------ *)
(* every configuration, with no fault injected *)
LiveConfigs == {[c EXCEPT !.maxfaults = 0] : c \in Configs}

InitLive == \E c \in LiveConfigs : InitWith(c)

(* the steps of the main thread *)
MainStep ==
    \/ MainCreate \/ MainWait \/ MainStartRest \/ MainJoin
    \/ MainShutdown \/ MainExit

(* the steps a worker can take when no submission or completion fails: *)
(* no retry after an aborted command, no store to exit_status          *)
WorkerStepLive(w) ==
    \/ OpenFds(w)
    \/ Acquire(w) \/ LockIn(w) \/ NormalRead(w) \/ ChkAddr(w)
    \/ SgReadStart(w) \/ SgReadFinish(w) \/ SgReadCredit(w)
    \/ SgReadDefer(w) \/ SgWrDefer(w) \/ TailFlush(w)
    \/ LockOut(w) \/ CvWait(w) \/ NullWrite(w) \/ NormalWrite(w)
    \/ SgWrBegin(w) \/ SgWrStart(w) \/ SgPfFinish(w) \/ SgPfRelock(w)
    \/ SgWrFinish(w) \/ SgWrCredit(w) \/ SgWrFini(w)
    \/ LockOut2(w) \/ SgWrSwapShare(w)
    \/ IterEnd(w) \/ ExitLock(w) \/ Fini(w)

NextLive == MainStep \/ (\E w \in Workers : WorkerStepLive(w)) \/ SigLast

(* each thread that can run is scheduled again and again: a thread     *)
(* blocked on a mutex or on the condition variable has no enabled step *)
SpecLive ==
    /\ InitLive
    /\ [][NextLive]_vars
    /\ WF_vars(MainStep)
    /\ \A w \in Workers : WF_vars(WorkerStepLive(w))
    /\ WF_vars(SigLast)

(* ------------------------------------------------------------------ *)
(* C20: termination of a run without errors                            *)
(* ------------------------------------------------------------------ *)
(* the input can supply every block of the copy: it is not a regular   *)
(* file that ends before block skip+count                              *)
InputCovers(c) ==
    c.in_type # FT_OTHER \/ c.in_bytes >= (c.skip + c.count) * c.bs

(* the main thread is past its joins *)
Joined == mpc \in {"joined", "exit"}

(* every block of the copy went through the write half *)
AllOut == out_count = 0 /\ out_blk = cfg.seek + cfg.count

(* every worker that waits at the ordering gate leaves it, and the run *)
(* ends with every started worker exited and joined                    *)
AllLeave ==
    /\ \A w \in Workers : (pc[w] = "cv_wait") ~> (pc[w] # "cv_wait")
    /\ \A w \in Workers : (pc[w] # "idle") ~> (pc[w] = "done")
    /\ <>Exited
    /\ [](Joined => \A w \in Workers : pc[w] \in {"idle", "done"})

(* C20: in a run with no I/O error and no signal, under fair           *)
(* scheduling, no worker waits forever at the ordering gate: every     *)
(* worker that was started leaves its loop and exits and the joins of  *)
(* the main thread complete; if the input supplied all count blocks,   *)
(* out_count is then 0 and out_blk is seek+count.                      *)
C20_GateLiveness ==
    /\ AllLeave
    /\ []((Joined /\ InputCovers(cfg)) => AllOut)

(* C20 witness: a worker waits at the ordering gate while the other    *)
(* worker holds the segment before it and has not finished its write.  *)
C20_Witness ==
    /\ mpc = "join" /\ InputCovers(cfg)
    /\ \E w \in Workers :
          /\ pc[w] = "cv_wait"
          /\ rep[w].oblk # out_blk
          /\ \E v \in Workers : v # w /\ rep[v].oblk < rep[w].oblk
                                     /\ pc[v] \notin {"idle", "done"}

(* C20 as stated: the same, with out_count 0 and out_blk seek+count    *)
(* after the joins of every run without I/O error.                     *)
C20_AsStated ==
    /\ AllLeave
    /\ [](Joined => AllOut)

(* ------------------------------------------------------------------ *)
(* C21: the ordering gate                                              *)
(* ------------------------------------------------------------------ *)
(* worker w, having locked out_mutex, goes to wait on out_sync_cv *)
GoesToWait(w) == pc[w] = "lock_out" /\ pc'[w] = "cv_enter"

(* worker w, having locked out_mutex, leaves its loop without writing *)
LeavesAtGate(w) == pc[w] = "lock_out" /\ pc'[w] = "exit_lock"

(* C21: when the ordering gate applies, a worker passes to its write    *)
(* half only with out_mutex held, out_blk equal to its segment's output *)
(* LBA and out_stop clear; it goes to wait only when out_stop is clear  *)
(* and out_blk is not its LBA, and it leaves the loop without writing   *)
(* only when out_stop is set.  out_blk starts at seek and changes only  *)
(* in the step of a worker that passes, by that segment's block count.  *)
C21_Gate ==
    /\ out_blk = cfg.seek
    /\ [](\A w \in Workers :
            pc[w] \in {"write", "cv_enter"} => out_mutex = w)
    /\ [][\A w \in Workers :
            /\ (GateApplies(cfg) /\ ClaimsOutput(w)) =>
                  /\ out_mutex' = w
                  /\ out_blk = rep[w].oblk
                  /\ ~ out_stop
            /\ (GateApplies(cfg) /\ GoesToWait(w)) =>
                  /\ ~ out_stop /\ out_blk # rep[w].oblk
                  /\ out_blk' = out_blk /\ out_count' = out_count
            /\ (GateApplies(cfg) /\ LeavesAtGate(w)) =>
                  /\ out_stop /\ out_blk' = out_blk
                  /\ owr' = owr /\ ofile' = ofile /\ cmds' = cmds
            /\ ClaimsOutput(w) => out_blk' = out_blk + rep[w].blocks]_vars
    /\ [][out_blk' # out_blk => \E w \in Workers : ClaimsOutput(w)]_vars

(* C21 witness: with the gate in force one worker waits on out_sync_cv  *)
(* for its turn while out_blk has already been advanced past seek by a  *)
(* worker that passed.                                                  *)
C21_Witness ==
    /\ GateApplies(cfg)
    /\ out_blk > cfg.seek
    /\ \E w \in Workers :
          pc[w] = "cv_wait" /\ rep[w].oblk # out_blk /\ ~ out_stop

(* ------------------------------------------------------------------ *)
(* C22: reads through a shared file offset (same_fds)                  *)
(* ------------------------------------------------------------------ *)
(* labels between the end of a worker's read and the end of its write *)
HasReadData == {"chkaddr", "lock_out", "cv_enter", "cv_wait", "write"}

(* worker w's read returned every byte asked for, and the first block  *)
(* of its buffer is not input block iblk                               *)
WrongData(w) ==
    /\ pc[w] \in HasReadData
    /\ ~ rep[w].stop_after_write
    /\ rep[w].blocks > 0
    /\ rep[w].buf[0] # GARBAGE
    /\ rep[w].buf[0] # rep[w].iblk

(* C22 as stated: with same_fds and a regular-file input, the data a    *)
(* worker has read for the segment with index i is the input data at    *)
(* block skip+i, whatever the order in which the workers got in_mutex.  *)
C22_AsStated ==
    (cfg.same_fds /\ cfg.in_type = FT_OTHER) =>
       \A w \in Workers : ~ WrongData(w)

(* C22 witness: with same_fds a worker holds, for its segment, data of  *)
(* a different input block, read without error.                        *)
C22_Witness ==
    /\ cfg.same_fds /\ cfg.in_type = FT_OTHER /\ faults = 0
    /\ \E w \in Workers :
          /\ WrongData(w)
          /\ rep[w].iblk = cfg.skip + rep[w].my_index

(* ------------------------------------------------------------------ *)
(* Specification: every configuration, faults included, fair threads   *)
(* ------------------------------------------------------------------ *)
SpecFair ==
    /\ Init
    /\ [][Next]_vars
    /\ WF_vars(MainStep)
    /\ \A w \in Workers : WF_vars(WorkerStep(w))
    /\ WF_vars(SigLast)

(* ------------------------------------------------------------------ *)
(* C23: the start-up wait of the main thread                           *)
(* ------------------------------------------------------------------ *)
(* main is past its start-up wait: it started the other workers and is *)
(* at or after its joins, or the process was ended by err_exit         *)
PastStartup == mpc \in {"join", "joined", "exit", "aborted"}

(* C23 as stated: once the main thread has created worker 0, it is     *)
(* eventually woken from its wait on out_sync_cv, starts the remaining *)
(* workers and reaches the joins, whatever worker 0 does first.        *)
C23_AsStated == (mpc = "created") ~> PastStartup

(* C23 witness: the main thread waits on out_sync_cv while worker 0    *)
(* has already returned after a failed open and no other worker was    *)
(* ever started: nothing is left that could broadcast.                 *)
C23_Witness ==
    /\ mpc = "waiting"
    /\ pc[0] = "done"
    /\ \A w \in Workers : w # 0 => pc[w] = "idle"
    /\ pos_index = 0

(* ------------------------------------------------------------------ *)
(* The signal-listening thread on SIGINT (sig_listen_thread)           *)
(* ------------------------------------------------------------------ *)
(* Variant: SIGINT is noted without setting the stop flags *)
SigInt_noflags ==
    /\ spc = "listen"
    /\ mpc \notin {"exit", "aborted", "signalled"}
    /\ spc' = "flagged"
    /\ UNCHANGED <<cfg, shutting_down, sl, oreg, num_miscompare, pos_index, counters, stops, exit_status,
                   mono_pack_id, mutexes, pc, rep, mpc, exit_code, files,
                   cmds, wlog, faults>>

(* sigtimedwait returns SIGINT: stop_both *)
SigInt ==
    /\ spc = "listen"
    /\ mpc \notin {"exit", "aborted", "signalled"}
    /\ StopBoth
    /\ spc' = "flagged"
    /\ UNCHANGED <<cfg, shutting_down, sl, oreg, num_miscompare, pos_index, counters, exit_status, mono_pack_id,
                   mutexes, pc, rep, mpc, exit_code, files, cmds, wlog,
                   faults>>

(* pthread_cond_broadcast(&clp->out_sync_cv), made without out_mutex *)
SigBroadcast ==
    /\ spc = "flagged"
    /\ mpc # "aborted"
    /\ pc' = Woken(pc)
    /\ mpc' = MainWoken(mpc)
    /\ spc' = "raise"
    /\ UNCHANGED <<cfg, shutting_down, sl, oreg, num_miscompare, pos_index, counters, stops, exit_status,
                   mono_pack_id, mutexes, rep, exit_code, files, cmds, wlog,
                   faults>>

(* sigprocmask(orig) and raise(SIGINT): if SIGINT was ignored when the  *)
(* program started no handler was installed and the thread returns;    *)
(* otherwise interrupt_handler prints the statistics and kills the     *)
(* process with the default action                                     *)
SigRaise ==
    /\ spc = "raise"
    /\ mpc # "aborted"
    /\ spc' = "ended"
    /\ \E ignored \in BOOLEAN :
          IF ignored
          THEN UNCHANGED <<pc, mpc, mutexes>>
          ELSE /\ pc' = [v \in Workers |->
                           IF pc[v] \in {"idle", "done"} THEN pc[v]
                           ELSE "killed"]
               /\ mpc' = "signalled"
               /\ in_mutex' = NoOwner
               /\ out_mutex' = NoOwner
               /\ out2_mutex' = NoOwner
    /\ UNCHANGED <<cfg, shutting_down, sl, oreg, num_miscompare, pos_index, counters, stops, exit_status,
                   mono_pack_id, rep, exit_code, files, cmds, wlog, faults>>

(* the steps of the signal-listening thread once SIGINT has arrived *)
SigStep == SigBroadcast \/ SigRaise

(* ------------------------------------------------------------------ *)
(* Specification: runs without I/O errors in which SIGINT may arrive   *)
(* ------------------------------------------------------------------ *)
SigConfigs ==
    {CfgFile, [CfgFileSg EXCEPT !.maxfaults = 0],
     [CfgSgFile EXCEPT !.maxfaults = 0],
     [CfgSg EXCEPT !.count = MaxCount]}

InitSig == \E c \in SigConfigs : InitWith(c)

WorkerStepSig(w) ==
    \/ OpenFds(w)
    \/ Acquire(w) \/ LockIn(w) \/ NormalRead(w)
    \/ SgReadStart(w) \/ SgReadFinish(w) \/ SgReadCredit(w)
    \/ LockOut(w) \/ CvWait(w) \/ NormalWrite(w)
    \/ SgWrBegin(w) \/ SgWrStart(w) \/ SgWrFinish(w) \/ SgWrCredit(w)
    \/ SgWrFini(w)
    \/ IterEnd(w) \/ ExitLock(w) \/ Fini(w)

NextSig ==
    \/ MainStep
    \/ \E w \in Workers : WorkerStepSig(w)
    \/ SigInt \/ SigBroadcast \/ SigRaise \/ SigLast

(* threads are scheduled fairly; the arrival of SIGINT is not forced *)
SpecSig ==
    /\ InitSig
    /\ [][NextSig]_vars
    /\ WF_vars(MainStep)
    /\ \A w \in Workers : WF_vars(WorkerStepSig(w))
    /\ WF_vars(SigStep)
    /\ WF_vars(SigLast)

(* ------------------------------------------------------------------ *)
(* C24: SIGINT                                                         *)
(* ------------------------------------------------------------------ *)
(* the copy is over: the workers were joined, or the process was       *)
(* terminated by the re-raised SIGINT                                  *)
(* SIGINT has been taken by the signal-listening thread *)
SigIntSeen == spc \in {"flagged", "raise", "ended"}

AllGone ==
    \/ mpc = "signalled"
    \/ Joined /\ \A w \in Workers : pc[w] \in {"idle", "done"}

(* C24: on SIGINT the signal thread sets both stop flags before it      *)
(* broadcasts out_sync_cv; the broadcast wakes every worker waiting at  *)
(* the gate; from the moment the flags are set no worker passes from    *)
(* the gate to its write half, a worker that gets out_mutex there       *)
(* leaves its loop without writing; and every worker eventually exits,  *)
(* by returning and being joined or with the process when the re-raised *)
(* SIGINT terminates it.                                                *)
C24_SigInt ==
    /\ [](SigIntSeen => in_stop /\ out_stop)
    /\ [][(spc = "flagged" /\ spc' = "raise") =>
             \A w \in Workers : pc[w] = "cv_wait" => pc'[w] = "lock_out"]_vars
    /\ [][\A w \in Workers :
             (SigIntSeen /\ pc[w] = "lock_out"
                 /\ pc'[w] \notin {"lock_out", "killed"}) =>
                /\ pc'[w] = "exit_lock"
                /\ owr' = owr /\ ofile' = ofile /\ cmds' = cmds
                /\ out_blk' = out_blk]_vars
    /\ (spc = "flagged") ~> AllGone
    /\ [](spc = "ended" /\ mpc # "signalled" => <>Exited)

(* C24 witness: after the broadcast of the signal thread a worker that  *)
(* waited at the gate for a turn that has not come is runnable again,   *)
(* with out_stop set.                                                   *)
C24_Witness ==
    /\ spc = "raise" /\ out_stop /\ GateApplies(cfg)
    /\ \E w \in Workers :
          /\ pc[w] = "lock_out"
          /\ rep[w].oblk # out_blk
          /\ rep[w].blocks > 0

(* ------------------------------------------------------------------ *)
(* C25: the exit code and the blocks that were output                  *)
(* ------------------------------------------------------------------ *)
(* C25: when main returns 0 every one of the count blocks was output    *)
(* (out_rem_count is 0): as stated.  The test at fini looks at          *)
(* out_count, which is decremented when a segment is claimed at the     *)
(* gate, before its write is attempted.                                 *)
C25_AsStated ==
    (mpc = "exit" /\ exit_code = 0) => out_rem_count = 0

(* C25 witness: main returned 0 after the write of the last segment     *)
(* failed: every segment was claimed, the stop flags are set, blocks    *)
(* remain to be output.                                                 *)
C25_Witness ==
    /\ mpc = "exit" /\ exit_code = 0
    /\ exit_status = 0 /\ out_count = 0
    /\ out_stop /\ faults > 0
    /\ out_rem_count > 0

(* ------------------------------------------------------------------ *)
(* C26: the deferred array when a worker leaves its main loop          *)
(* ------------------------------------------------------------------ *)
(* the worker is past its main loop (read_write_thread, the lock of     *)
(* in_mutex that follows the loop)                                     *)
LeftLoop(w) == pc[w] = "exit_lock"

(* C26: with MRQ, a worker that has left its main loop (past the end,   *)
(* read nothing, stop requested, short read) has flushed its deferred   *)
(* array, so it holds no request: as stated.  Only the first two ways   *)
(* out flush.                                                           *)
C26_AsStated ==
    \A w \in Workers : LeftLoop(w) => rep[w].def_arr = <<>>

(* C26 witness: a copy without any I/O error has ended; a worker        *)
(* returned with a WRITE still in its deferred array, the blocks of     *)
(* that WRITE are counted as output and were never written.             *)
C26_Witness ==
    /\ mpc = "exit" /\ faults = 0 /\ cfg.nmrqs > 0
    /\ \E w \in Workers :
          /\ pc[w] = "done"
          /\ \E k \in DOMAIN rep[w].def_arr :
                LET e == rep[w].def_arr[k]
                IN  /\ e.op = "W"
                    /\ e.lba \notin wr_done
                    /\ \A i \in 1 .. Len(owr) : owr[i] # e.lba
                    /\ out_rem_count <= cfg.count - e.nb

(* ------------------------------------------------------------------ *)
(* C27: size and content of the deferred array                         *)
(* ------------------------------------------------------------------ *)
(* C27 as stated: a worker's deferred array never holds more entries    *)
(* than the NRQS given in mrq=.                                         *)
C27_AsStated ==
    \A w \in Workers : Len(rep[w].def_arr) <= cfg.nmrqs

(* C27: a worker's deferred array holds fewer entries than clp->nmrqs   *)
(* whenever the worker is between two calls (NRQS as adjusted by main:  *)
(* doubled if odd, or tripled with OSP > 0 if not a multiple of 3, when *)
(* IFILE and OFILE are both sg devices): the call that adds the entry   *)
(* that fills it sends it; it grows by one entry at a time; it is empty *)
(* after every transaction; and no WRITE in it has been sent to the     *)
(* kernel.                                                              *)
C27_Bound ==
    /\ [](\A w \in Workers :
            /\ Len(rep[w].def_arr) <= Nmrqs(cfg)
            /\ Nmrqs(cfg) > 0 => Len(rep[w].def_arr) < Nmrqs(cfg)
            /\ \A k \in DOMAIN rep[w].def_arr :
                  rep[w].def_arr[k].op = "W" =>
                     /\ rep[w].def_arr[k].lba \notin wr_done
                     /\ \A i \in 1 .. Len(owr) :
                           owr[i] # rep[w].def_arr[k].lba)
    /\ [][\A w \in Workers :
             /\ rep'[w].fl.n # rep[w].fl.n => rep'[w].def_arr = <<>>
             /\ Len(rep'[w].def_arr) <= Len(rep[w].def_arr) + 1
             /\ Len(rep'[w].def_arr) < Len(rep[w].def_arr) =>
                   rep'[w].fl.n = rep[w].fl.n + 1]_vars

(* C27 witness: with mrq=1 and OSP > 0 between two sg devices a worker  *)
(* that has already sent one transaction holds two requests, more than  *)
(* the NRQS given and fewer than clp->nmrqs.                            *)
C27_Witness ==
    /\ cfg.nmrqs = 1 /\ Nmrqs(cfg) = 3
    /\ \E w \in Workers :
          /\ rep[w].fl.n > 0
          /\ Len(rep[w].def_arr) = 2

(* ------------------------------------------------------------------ *)
(* C28: blocks credited as written and blocks credited as read         *)
(* ------------------------------------------------------------------ *)
(* C28: in every reachable state the blocks credited as written,        *)
(* count - out_rem_count, do not exceed the blocks credited as read,    *)
(* count - in_rem_count: as stated.                                     *)
C28_AsStated ==
    cfg.count - out_rem_count <= cfg.count - in_rem_count

(* C28 witness: without any I/O error and without MRQ, a worker whose   *)
(* read(2) returned fewer blocks than its segment has written the       *)
(* segment, and more blocks are credited as written than as read.       *)
C28_Witness ==
    /\ faults = 0 /\ cfg.nmrqs = 0 /\ cfg.in_type = FT_OTHER
    /\ cfg.count - out_rem_count > cfg.count - in_rem_count
    /\ \E w \in Workers :
          /\ pc[w] = "iter_end"
          /\ rep[w].stop_after_write
          /\ rep[w].num_blks < rep[w].blocks

(* ------------------------------------------------------------------ *)
(* C29: a short read(2) on a regular input                             *)
(* ------------------------------------------------------------------ *)
(* bytes returned by the read(2) of worker w in a step of normal_in_rd *)
BytesRead(w) == i_off' - ReadPos(cfg, rep[w], i_off)

(* worker w makes its read(2), which does not fail *)
ReadStep(w) ==
    /\ cfg.in_type = FT_OTHER
    /\ pc[w] = "read" /\ pc'[w] # "read"
    /\ faults' = faults

(* no I/O error so far, and the last read(2) of worker w was short *)
ShortRead(w) ==
    /\ cfg.in_type = FT_OTHER /\ faults = 0
    /\ pc[w] \notin {"idle", "open", "acquire", "lock_in", "read"}
    /\ rep[w].stop_after_write

(* the short read of w got data and w is past its main loop *)
ShortLeft(w) ==
    /\ ShortRead(w) /\ rep[w].num_blks > 0
    /\ cfg.out_type # FT_DEV_NULL
    /\ pc[w] \in {"exit_lock", "fini", "done"}

(* the bookkeeping of normal_in_rd and the way out of the loop *)
C29_Steps ==
    [][\A w \in Workers :
          /\ ReadStep(w) =>
                /\ rep'[w].stop_after_write =
                      (BytesRead(w) < rep[w].blocks * cfg.bs)
                /\ in_partial' - in_partial =
                      IF BytesRead(w) < rep[w].blocks * cfg.bs
                            /\ BytesRead(w) % cfg.bs # 0
                      THEN 1 ELSE 0
          /\ (ClaimsOutput(w) /\ ShortRead(w)) => out_stop'
          /\ (ShortRead(w) /\ pc[w] = "iter_end" /\ pc'[w] # "iter_end") =>
                pc'[w] \in {"exit_lock", "tail_flush0"}]_vars

(* no write is ever begun above the segment of a short read *)
C29_NothingAbove ==
    \A w \in Workers :
       ShortRead(w) =>
          \A i \in 1 .. Len(owr) : owr[i] < rep[w].oblk + rep[w].blocks

(* C29: a short read(2) on a regular input ends the copy: a partial     *)
(* block is recorded exactly when the byte count is not a multiple of   *)
(* bs, stop_after_write is set, the worker writes that segment, sets    *)
(* out_stop and leaves its loop, and no segment with a higher output    *)
(* LBA is written: as stated.                                           *)
C29_AsStated ==
    /\ C29_Steps
    /\ [](C29_NothingAbove)
    /\ [](\A w \in Workers :
             ShortLeft(w) => out_stop /\ rep[w].oblk \in wr_done)

(* C29 witness: the worker of the short read queued the WRITE of its    *)
(* segment with MRQ, left its loop and returned; the WRITE was never    *)
(* sent.                                                                *)
C29_Witness ==
    /\ mpc = "exit" /\ Nmrqs(cfg) > 0
    /\ \E w \in Workers :
          /\ ShortLeft(w)
          /\ rep[w].oblk \notin wr_done
          /\ \E k \in DOMAIN rep[w].def_arr :
                rep[w].def_arr[k].lba = rep[w].oblk

(* ------------------------------------------------------------------ *)
(* C30: AbortedCommand / UnitAttention on an sg READ or WRITE          *)
(* ------------------------------------------------------------------ *)
(* the command worker w has just submitted, on the side wr *)
Issued(w, wr, ops) ==
    /\ Len(cmds') = Len(cmds) + 1
    /\ LET c == cmds'[Len(cmds')]
       IN  /\ c.tid = w /\ c.op \in ops
           /\ c.lba = CdbLba(cfg, rep[w], wr)
           /\ c.nb = CdbBlks(cfg, rep[w], wr)

(* positions in the command log of a command and of its repetition *)
Repeated ==
    {p \in (DOMAIN cmds) \X (DOMAIN cmds) :
        /\ p[1] < p[2]
        /\ cmds[p[1]].tid = cmds[p[2]].tid
        /\ cmds[p[1]].op = cmds[p[2]].op
        /\ cmds[p[1]].lba = cmds[p[2]].lba
        /\ cmds[p[1]].nb = cmds[p[2]].nb}

(* C30: after AbortedCommand or UnitAttention on an sg READ or WRITE    *)
(* the worker, unless the process ends first, re-acquires the mutex it  *)
(* had released (in_mutex, or the out mutex of that write), its segment *)
(* unchanged, and submits the                                           *)
(* command again with the same LBA and block count; neither the         *)
(* aborted attempt nor the re-acquisition touches in_rem_count or       *)
(* out_rem_count, which change only in the step that follows a good     *)
(* completion, by that command's blocks; a run that ends without a stop *)
(* and with every segment taken has both counters at 0, retries         *)
(* included.                                                            *)
C30_Retry ==
    /\ [][Nmrqs(cfg) = 0 =>
          \A w \in Workers :
             /\ (pc[w] = "rd_finish" /\ pc'[w] = "rd_relock") =>
                   rep'[w] = rep[w] /\ in_rem_count' = in_rem_count
             /\ (pc[w] = "rd_relock" /\ pc'[w] \notin {"rd_relock", "killed"}) =>
                   /\ pc'[w] = "read"
                   /\ in_mutex = NoOwner /\ in_mutex' = w
                   /\ rep'[w] = rep[w] /\ in_rem_count' = in_rem_count
             /\ (pc[w] = "read" /\ pc'[w] = "rd_finish") =>
                   in_mutex = w /\ Issued(w, FALSE, {"R"})
             /\ (pc[w] = "wr_finish" /\ pc'[w] = "wr_relock") =>
                   rep'[w] = rep[w] /\ out_rem_count' = out_rem_count
             /\ (pc[w] = "wr_relock" /\ pc'[w] \notin {"wr_relock", "killed"}) =>
                   /\ pc'[w] = "wr_start"
                   /\ MutexpFree(rep[w])
                   /\ (IF rep[w].is_wr2 THEN out2_mutex' ELSE out_mutex') = w
                   /\ rep'[w] = rep[w] /\ out_rem_count' = out_rem_count
             /\ (pc[w] = "wr_start" /\ pc'[w] = "wr_finish") =>
                   Issued(w, TRUE, {"W", "W2", "V"})]_vars
    /\ [][(cfg.in_type = FT_SG /\ Nmrqs(cfg) = 0
              /\ in_rem_count' # in_rem_count) =>
            \E w \in Workers :
               /\ pc[w] = "rd_credit" /\ pc'[w] # "rd_credit"
               /\ in_rem_count' = in_rem_count - rep[w].num_blks]_vars
    /\ [][(cfg.out_type = FT_SG /\ Nmrqs(cfg) = 0
              /\ out_rem_count' # out_rem_count) =>
            \E w \in Workers :
               /\ pc[w] = "wr_credit" /\ pc'[w] # "wr_credit"
               /\ out_rem_count' = out_rem_count - rep[w].nblks]_vars
    /\ [][\A w \in Workers :
            /\ (Nmrqs(cfg) = 0 /\ pc'[w] = "rd_credit"
                   /\ pc[w] # "rd_credit") => pc[w] = "rd_finish"
            /\ (Nmrqs(cfg) = 0 /\ pc'[w] = "wr_credit"
                   /\ pc[w] # "wr_credit") => pc[w] = "wr_finish"]_vars
    /\ []((Exited /\ ~ out_stop /\ out_count = 0 /\ Nmrqs(cfg) = 0) =>
             in_rem_count = 0 /\ out_rem_count = 0)

(* C30 witness: a run ended without a stop after a WRITE was aborted    *)
(* once and sent again with the same LBA and block count; every block   *)
(* is credited.                                                         *)
C30_Witness ==
    /\ Exited /\ ~ out_stop /\ faults = 1 /\ out_count = 0
    /\ cfg.out_type = FT_SG /\ cfg.ofsplit = 0 /\ Nmrqs(cfg) = 0
    /\ \E p \in Repeated : cmds[p[1]].op = "W"
    /\ in_rem_count = 0 /\ out_rem_count = 0

(* ------------------------------------------------------------------ *)
(* C31: an sg READ that completes with an error                        *)
(* ------------------------------------------------------------------ *)
(* READs are sent one by one and classified by sg_in_rd_cmd *)
PlainInSg == cfg.in_type = FT_SG /\ Nmrqs(cfg) = 0

(* worker w is between its read half and the stop test of the write    *)
(* half, and its READ did not end good                                 *)
ReadFailed(w) ==
    /\ PlainInSg
    /\ pc[w] \in {"chkaddr", "lock_out", "cv_enter", "cv_wait"}
    /\ rep[w].res # 0

(* sg_finish_io of the READ of worker w gives a fatal category *)
FatalRead(w) == PlainInSg /\ pc[w] = "rd_finish" /\ pc'[w] = "es_check"

(* sg_finish_io of the READ of worker w gives MediumHard with coe *)
CoeRead(w) ==
    /\ PlainInSg /\ cfg.in_coe
    /\ pc[w] = "rd_finish" /\ pc'[w] = "rd_credit"
    /\ faults' = faults + 1

(* C31: an sg READ that completes with MediumHard without coe, with     *)
(* NotReady or with any other category that is not a retry leaves       *)
(* in_rem_count and the buffer alone, stores the category in            *)
(* exit_status if the worker found none recorded, sets both stop flags  *)
(* and returns; the worker then fails the stop test of the write half:  *)
(* it takes no output range and nothing is written or submitted for     *)
(* that segment.  With coe a MediumHard READ zero-fills the segment's   *)
(* buffer, sets no flag and the segment is credited; a run with such a  *)
(* READ that ends without a stop has every block read and written.      *)
C31_FatalRead ==
    /\ [][\A w \in Workers :
             /\ FatalRead(w) =>
                  /\ rep'[w].res \in {SG_LIB_CAT_MEDIUM_HARD,
                                      SG_LIB_CAT_NOT_READY, RES_FAIL}
                  /\ (rep'[w].res = SG_LIB_CAT_MEDIUM_HARD => ~ cfg.in_coe)
                  /\ rep'[w].buf = rep[w].buf
                  /\ in_rem_count' = in_rem_count
             /\ (PlainInSg /\ pc[w] = "es_set"
                    /\ pc'[w] \notin {"es_set", "killed"}
                    /\ rep[w].ret = AfterRead(cfg)) =>
                  /\ in_stop' /\ out_stop'
                  /\ (rep[w].saw => exit_status' = rep[w].res)
                  /\ in_rem_count' = in_rem_count
                  /\ pc'[w] = AfterRead(cfg)
             /\ (ReadFailed(w) /\ pc[w] = "lock_out"
                    /\ pc'[w] \notin {"lock_out", "killed"}) =>
                  /\ pc'[w] = "exit_lock"
                  /\ out_count' = out_count /\ out_blk' = out_blk
                  /\ owr' = owr /\ ofile' = ofile /\ cmds' = cmds
                  /\ out_rem_count' = out_rem_count
             /\ (PlainInSg /\ ClaimsOutput(w)) => rep[w].res = 0
             /\ CoeRead(w) =>
                  /\ \A k \in DOMAIN rep[w].buf :
                        (k < rep[w].num_blks => rep'[w].buf[k] = 0)
                  /\ UNCHANGED <<in_stop, out_stop, exit_status>>]_vars
    /\ [](\A w \in Workers : ReadFailed(w) => in_stop /\ out_stop)
    /\ []((Exited /\ ~ out_stop /\ out_count = 0 /\ PlainInSg) =>
             in_rem_count = 0 /\ out_rem_count = 0)

(* C31 witness: a READ ended with MediumHard without coe; the worker    *)
(* recorded it, both flags are set, and the worker is past its loop     *)
(* with the output range of its segment never taken.                    *)
C31_Witness ==
    /\ PlainInSg /\ ~ cfg.in_coe
    /\ exit_status = SG_LIB_CAT_MEDIUM_HARD
    /\ in_stop /\ out_stop
    /\ \E w \in Workers :
          /\ pc[w] = "exit_lock"
          /\ rep[w].res = SG_LIB_CAT_MEDIUM_HARD
          /\ out_blk <= rep[w].oblk
          /\ \A i \in 1 .. Len(owr) : owr[i] # rep[w].oblk

(* ------------------------------------------------------------------ *)
(* C32: a VERIFY that completes with Miscompare                        *)
(* ------------------------------------------------------------------ *)
(* sg_finish_io of the VERIFY of worker w gives Miscompare *)
Miscompare(w) ==
    /\ cfg.verify
    /\ pc[w] = "wr_finish" /\ pc'[w] # "wr_finish"
    /\ num_miscompare' # num_miscompare

(* C32 as stated: with continue-on-error a VERIFY that completes with   *)
(* Miscompare is not fatal, the worker goes on as after a good VERIFY.  *)
C32_AsStated ==
    [][\A w \in Workers :
          (Miscompare(w) /\ cfg.out_coe) =>
              pc'[w] \in {"wr_credit", "wr_fini"}]_vars

(* C32: a VERIFY that completes with Miscompare is counted (twice: by   *)
(* sg_finish_io and by sg_out_wr_cmd) and is fatal whether or not       *)
(* continue-on-error is set: the worker stores Miscompare in            *)
(* exit_status if it found none recorded and sets both stop flags; it   *)
(* is not taken off out_rem_count.                                      *)
C32_Fatal ==
    /\ [][\A w \in Workers :
            /\ Miscompare(w) =>
                  /\ num_miscompare' = num_miscompare + 2
                  /\ rep'[w].res = SG_LIB_CAT_MISCOMPARE
                  /\ pc'[w] = "es_check"
                  /\ out_rem_count' = out_rem_count
            /\ (cfg.verify /\ pc[w] = "es_set"
                   /\ rep[w].res = SG_LIB_CAT_MISCOMPARE
                   /\ pc'[w] \notin {"es_set", "killed"}) =>
                  /\ in_stop' /\ out_stop'
                  /\ rep[w].saw => exit_status' = SG_LIB_CAT_MISCOMPARE
                  /\ out_rem_count' = out_rem_count]_vars
    /\ []((cfg.verify /\ num_miscompare > 0
             /\ \A w \in Workers :
                   pc[w] \notin {"es_check", "es_set", "killed"}) =>
            in_stop /\ out_stop)

(* C32 witness: oflag=coe is given, a VERIFY completed with Miscompare, *)
(* the worker recorded it and both stop flags are set.                  *)
C32_Witness ==
    /\ cfg.verify /\ cfg.out_coe
    /\ num_miscompare = 2
    /\ exit_status = SG_LIB_CAT_MISCOMPARE
    /\ in_stop /\ out_stop
    /\ \E w \in Workers :
          pc[w] = "wr_fini" /\ rep[w].res = SG_LIB_CAT_MISCOMPARE

(* ------------------------------------------------------------------ *)
(* C33: the upper half of a split write after a failed lower half      *)
(* ------------------------------------------------------------------ *)
(* worker w has set up the upper half of its split write and the lower *)
(* half ended with a failed submission or a fatal completion           *)
UpperAfterFailed(w) ==
    /\ cfg.out_type = FT_SG /\ Nmrqs(cfg) = 0
    /\ pc[w] = "wr_start"
    /\ rep[w].dout_is_split /\ rep[w].hpv4_ind = 1
    /\ rep[w].res # 0

(* C33 as stated: a worker whose lower half of a split write failed     *)
(* fatally (submission failed, or error status recorded and both stop   *)
(* flags set) does not issue the upper half of that segment.            *)
C33_AsStated ==
    [][\A w \in Workers :
          UpperAfterFailed(w) =>
              ~ (pc'[w] = "wr_finish" /\ Len(cmds') > Len(cmds))]_vars

(* C33 witness: the lower half of a split VERIFY completed with         *)
(* Miscompare, the only fault of the run; both stop flags are set and   *)
(* the last command sent is the upper half of the same segment.         *)
C33_Witness ==
    /\ cfg.ofsplit > 0 /\ Nmrqs(cfg) = 0
    /\ faults = 1 /\ exit_status = SG_LIB_CAT_MISCOMPARE
    /\ in_stop /\ out_stop
    /\ \E w \in Workers :
          /\ pc[w] = "wr_finish"
          /\ rep[w].dout_is_split /\ rep[w].hpv4_ind = 1
          /\ rep[w].oblk \notin wr_done
          /\ cmds # <<>>
          /\ cmds[Len(cmds)].tid = w
          /\ cmds[Len(cmds)].op = "W"
          /\ cmds[Len(cmds)].lba = CdbLba(cfg, rep[w], TRUE)
          /\ cmds[Len(cmds)].pid = rep[w].pack_id

(* ------------------------------------------------------------------ *)
(* C40: the value returned by sg_wr_swap_share                         *)
(* ------------------------------------------------------------------ *)
(* C40 as stated: the last call of sg_wr_swap_share by a worker         *)
(* returned true only if its change-shared-fd ioctl succeeded.          *)
C40_AsStated ==
    \A w \in Workers : rep[w].swap_ret => rep[w].swap_ok

(* C40 witness: the ioctl of the swap to the OFILE2 fd failed with an   *)
(* errno other than EBUSY at its first attempt; sg_wr_swap_share        *)
(* returned true, the share partner is still the OFILE fd and the       *)
(* worker is about to send the WRITE to OFILE2.                         *)
C40_Witness ==
    \E w \in Workers :
       /\ cfg.has_share /\ cfg.out2_sg
       /\ pc[w] = "wr_start" /\ rep[w].is_wr2
       /\ rep[w].swap_ret /\ ~ rep[w].swap_ok
       /\ rep[w].share = "out"
       /\ faults = 1

(* ------------------------------------------------------------------ *)
(* C34: the share partner of the read fd around the OFILE2 write       *)
(* ------------------------------------------------------------------ *)
(* request sharing with an sg OFILE2 *)
Shared2 == cfg.has_share /\ cfg.out2_sg /\ both_sg(cfg)

(* worker w hands a command of kind op to sg_start_io in this step *)
Issues(w, op) ==
    /\ Len(cmds') = Len(cmds) + 1
    /\ cmds'[Len(cmds')].tid = w
    /\ cmds'[Len(cmds')].op = op

(* the array of worker w, holding a request of kind op, is sent to the *)
(* kernel in this step                                                 *)
SendsDeferred(w, op) ==
    /\ \E i \in 1 .. Len(rep[w].def_arr) : rep[w].def_arr[i].op = op
    /\ \A i \in 1 .. Len(rep'[w].def_arr) : rep'[w].def_arr[i].op # op

(* the primary WRITE of the segment of worker w is not waiting in the  *)
(* worker's array: it was sent, or its submission failed               *)
PrimaryDone(w) ==
    \A i \in 1 .. Len(rep[w].def_arr) : rep[w].def_arr[i].op # "W"

(* C34 as stated: with sharing and an sg OFILE2, the partner of the     *)
(* read fd becomes the OFILE2 fd only after the primary WRITE of the    *)
(* segment, the WRITE to OFILE2 is sent with the OFILE2 fd as partner,  *)
(* and every READ is sent with the OFILE fd as partner.                 *)
C34_AsStated ==
    [][Shared2 =>
         \A w \in Workers :
            /\ (rep[w].share = "out" /\ rep'[w].share = "out2") =>
                  PrimaryDone(w)
            /\ Issues(w, "W2") => rep[w].share = "out2"
            /\ SendsDeferred(w, "W2") => rep[w].share = "out2"
            /\ Issues(w, "R") => rep[w].share = "out"]_vars

(* C34 witness: the swap back to the OFILE fd failed after a WRITE to   *)
(* OFILE2, and the worker has sent the READ of its next segment with    *)
(* the OFILE2 fd still the partner of its read fd.                      *)
C34_Witness ==
    /\ Shared2 /\ Nmrqs(cfg) = 0
    /\ \E w \in Workers :
          /\ pc[w] = "rd_finish"
          /\ rep[w].share = "out2"
          /\ ~ rep[w].swap_ok
          /\ cmds[Len(cmds)].op = "R" /\ cmds[Len(cmds)].tid = w
          /\ \E j \in 1 .. Len(cmds) :
                cmds[j].op = "W2" /\ cmds[j].tid = w

(* ------------------------------------------------------------------ *)
(* C35: order of the writes to OFREG and to OFILE2                     *)
(* ------------------------------------------------------------------ *)
(* position of the first entry x of the sequence s *)
FirstPos(s, x) ==
    CHOOSE i \in 1 .. Len(s) : s[i] = x /\ \A k \in 1 .. (i - 1) : s[k] # x

(* the primary WRITE at LBA a was first begun before the one at LBA b *)
Before(a, b) ==
    (\E i \in 1 .. Len(owr) : owr[i] = a) /\ (\E i \in 1 .. Len(owr) : owr[i] = b)
        => FirstPos(owr, a) < FirstPos(owr, b)

(* indices of the WRITEs sent to OFILE2 *)
W2Cmds == {j \in 1 .. Len(cmds) : cmds[j].op = "W2"}

InFlight(w) == pc[w] \in {"rd_finish", "pf_finish", "wr_finish"}

(* C36: a worker that waits in sg_finish_io for a READ, a PRE-FETCH or  *)
(* a WRITE (to OFILE or OFILE2) holds none of in_mutex, out_mutex and   *)
(* out2_mutex; the worker that sends a command with sg_start_io holds   *)
(* the mutex of that side and has released it when it goes on to        *)
(* sg_finish_io; and in_rem_count and out_rem_count change for an sg    *)
(* side only in a step that finds the mutex of that side free and       *)
(* leaves it free.                                                      *)
C36_NotHeldInFlight ==
    /\ [](\A w \in Workers : InFlight(w) => Held(w) = {})
    /\ [][\A w \in Workers :
            /\ (pc[w] = "read" /\ pc'[w] = "rd_finish") =>
                  in_mutex = w /\ in_mutex' = NoOwner
            /\ (pc[w] \in {"pf_start", "wr_start"}
                   /\ pc'[w] \in {"pf_finish", "wr_finish"}) =>
                  IF rep[w].is_wr2
                  THEN out2_mutex = w /\ out2_mutex' = NoOwner
                  ELSE out_mutex = w /\ out_mutex' = NoOwner
            /\ (pc[w] = "rd_credit" /\ pc'[w] \notin {"rd_credit", "killed"}) =>
                  in_mutex = NoOwner /\ in_mutex' = NoOwner
            /\ (pc[w] = "wr_credit" /\ pc'[w] \notin {"wr_credit", "killed"}) =>
                  out_mutex = NoOwner /\ out_mutex' = NoOwner]_vars

(* C36 witness: the READs of two workers are in flight at the same time *)
(* and in_mutex is free.                                                *)
C36_Witness ==
    \E w1, w2 \in Workers :
       /\ w1 # w2
       /\ pc[w1] = "rd_finish" /\ pc[w2] = "rd_finish"
       /\ in_mutex = NoOwner
       /\ \E i, j \in 1 .. Len(cmds) :
             /\ cmds[i].op = "R" /\ cmds[i].tid = w1 /\ cmds[i].pid = rep[w1].pack_id
             /\ cmds[j].op = "R" /\ cmds[j].tid = w2 /\ cmds[j].pid = rep[w2].pack_id

(* ------------------------------------------------------------------ *)
(* C37: which fd the requests of a transaction are sent to             *)
(* ------------------------------------------------------------------ *)
(* both sides sg devices, MRQ, and the non-blocking flag given *)
BothSgAsync == both_sg(cfg) /\ cfg.mrq_async /\ Nmrqs(cfg) > 0

(* C37 as stated: with both sides sg and mrq_async the array is split   *)
(* by DO_ON_OTHER and each portion is sent to its own fd: in the last   *)
(* transaction of every worker the READs were in an ioctl on the read   *)
(* fd and the WRITEs in an ioctl on the write fd.                       *)
C37_AsStated ==
    BothSgAsync =>
       \A w \in Workers :
          \A i \in 1 .. Len(rep[w].fl.ioctls) :
             LET io == rep[w].fl.ioctls[i] IN
             \A k \in 1 .. Len(io.reqs) :
                /\ io.reqs[k].op = "R" => io.fd = "in"
                /\ io.reqs[k].op \in {"W", "PF"} => io.fd = "out"

(* C37 witness: with both sides sg and mrq_async a worker's transaction *)
(* was one ioctl on the read fd holding a READ and a WRITE that has     *)
(* DO_ON_OTHER set.                                                     *)
C37_Witness ==
    /\ BothSgAsync /\ faults = 0
    /\ \E w \in Workers :
          /\ rep[w].fl.n >= 1
          /\ Len(rep[w].fl.ioctls) = 1
          /\ rep[w].fl.ioctls[1].fd = "in"
          /\ \E j, k \in 1 .. Len(rep[w].fl.ioctls[1].reqs) :
                /\ rep[w].fl.ioctls[1].reqs[j].op = "R"
                /\ rep[w].fl.ioctls[1].reqs[k].op = "W"
                /\ DoOnOther(cfg, rep[w].fl.ioctls[1].reqs[k])


(* ------------------------------------------------------------------ *)
(* Specification: the signal-listening thread with its timed waits     *)
(* ------------------------------------------------------------------ *)
(* sdt=1,100: check repetition time 1 s, initial check time 100 ms *)
CfgStallSdt == [CfgSg EXCEPT !.count = 3, !.maxfaults = 0,
                             !.sdt_crt = 1, !.sdt_ict = 100]

(* sdt=0: no stall detection *)
CfgStallOff == [CfgFile EXCEPT !.count = 3, !.sdt_crt = 0]

StallConfigs ==
    {CfgFile,
     [CfgFileSg EXCEPT !.count = 3, !.maxfaults = 0],
     [CfgSgFile EXCEPT !.count = 3, !.maxfaults = 0],
     CfgStallSdt, CfgStallOff}

InitStall == \E c \in StallConfigs : InitWith(c)

NextStall ==
    \/ MainStep
    \/ \E w \in Workers : WorkerStepSig(w)
    \/ SigTimeout
    \/ SigInt \/ SigBroadcast \/ SigRaise

(* threads are scheduled fairly and a timed wait always returns; the   *)
(* arrival of SIGINT is not forced                                     *)
SpecStall ==
    /\ InitStall
    /\ [][NextStall]_vars
    /\ WF_vars(MainStep)
    /\ \A w \in Workers : WF_vars(WorkerStepSig(w))
    /\ WF_vars(SigStep)
    /\ WF_vars(SigTimeout)

(* ------------------------------------------------------------------ *)
(* C38: shutting_down and the join of the signal-listening thread      *)
(* ------------------------------------------------------------------ *)
(* the signal-listening thread has left its loop *)
SigGone == spc \in {"ended", "returned"}

(* every worker thread has returned, or was never created *)
WorkersJoined == \A w \in Workers : pc[w] \in {"idle", "done"}

(* C38: shutting_down is set by main only after every worker has been  *)
(* joined; the first timeout of the signal thread after it is set ends *)
(* that thread, so the thread does end and main's join of it returns   *)
(* and main reaches its end (unless a SIGINT that arrived in between   *)
(* is re-raised and ends the process); main produces its exit code     *)
(* only after the workers and the signal thread have been joined.      *)
C38_Shutdown ==
    /\ [](shutting_down =>
             WorkersJoined /\ mpc \in {"joined", "exit", "signalled"})
    /\ [][(shutting_down /\ sl'.tick # sl.tick) => spc' = "returned"]_vars
    /\ shutting_down ~> (SigGone \/ mpc = "signalled")
    /\ shutting_down ~> (Exited \/ mpc = "signalled")
    /\ [](exit_code # NoOwner => Exited \/ mpc = "aborted")
    /\ [](Exited => shutting_down /\ WorkersJoined /\ SigGone)

(* C38 witness: main has returned after a whole copy; the workers are  *)
(* done and the signal thread, which had timed out more than once      *)
(* while the copy ran, has ended on seeing shutting_down.              *)
C38_Witness ==
    /\ Exited /\ shutting_down /\ spc = "returned"
    /\ \A w \in Workers : pc[w] = "done"
    /\ out_rem_count = 0 /\ cfg.count > 0
    /\ sl.stall_reported /\ sl.last_id = mono_pack_id

(* ------------------------------------------------------------------ *)
(* C39: stall detection                                                *)
(* ------------------------------------------------------------------ *)
(* the step is a timeout of the signal thread that announces a stall *)
StallStep == sl'.tick # sl.tick /\ sl'.stall_now

====
